---- MODULE Spec2Model ----
(***************************************************************************)
(* Model of the read-through cache of movierec_backend:                    *)
(*   utils/cache_service.py  RedisCacheService (the cache service),        *)
(*   utils/tmdb_client.py    TMDbClient        (the external API client),  *)
(*   movies/views.py         the five movie endpoints,                     *)
(*   users/views.py          the profile and the favorites,                *)
(*   utils/decorators.py     handle_api_errors,                            *)
(*   utils/exceptions.py     custom_exception_handler.                     *)
(*                                                                         *)
(* The specifications share the variables:                                 *)
(*   SpecCache   the cache service called directly by any caller,          *)
(*   SpecClient  the client's public fetch operations called directly,     *)
(*   Spec        the request handlers on top of both,                      *)
(* and the others, each introduced where it is defined, put one part of    *)
(* the program under the inputs that its claims are about.                 *)
(***************************************************************************)
EXTENDS Integers, Sequences, FiniteSets, TLC

VARIABLES
    redis_client,   \* self.redis_client: "client", or "none" after a failed construction
    conn,           \* TRUE while the Redis server answers
    store,          \* the Redis keyspace: key -> [val, exp, data]
    now,            \* the Redis server's clock, in seconds
    last,           \* the most recent cache-service call and its outcome
    cl,             \* the client call in progress (SpecClient)
    req,            \* the request in progress, per worker (Spec)
    args,           \* the arguments of the most recent cache-service call
    favorites       \* the FavoriteMovie rows: pairs <<user id, tmdb id>>

vars == <<redis_client, conn, store, now, last, cl, req, args, favorites>>

(***************************************************************************)
(* Python values, tagged by type.  A dict is a function from tagged keys.  *)
(***************************************************************************)
PyNone        == [t |-> "none"]
PyBool(b)     == [t |-> "bool", v |-> b]
PyInt(n)      == [t |-> "int", v |-> n]
PyStr(s)      == [t |-> "str", v |-> s]
PyList(xs)    == [t |-> "list", v |-> xs]
PyTuple(xs)   == [t |-> "tuple", v |-> xs]
PyDict(f)     == [t |-> "dict", v |-> f]
PyDatetime(s) == [t |-> "datetime", v |-> s]   \* s: its isoformat() text
PySet         == [t |-> "set"]                 \* a value json cannot encode

EmptyDict == PyDict(<<>>)

\* A dict with the string keys of record r.
StrDict(r) == PyDict([k \in {PyStr(n) : n \in DOMAIN r} |-> r[k.v]])

\* Python truthiness: bool(x).
Truthy(x) ==
    CASE x.t = "none"  -> FALSE
      [] x.t = "bool"  -> x.v
      [] x.t = "int"   -> x.v # 0
      [] x.t = "str"   -> x.v # ""
      [] x.t \in {"list", "tuple"} -> Len(x.v) > 0
      [] x.t = "dict"  -> DOMAIN x.v # {}
      [] OTHER -> TRUE

(***************************************************************************)
(* JSON documents, as the tree the text denotes.                           *)
(***************************************************************************)
JNull      == [j |-> "null"]
JBool(b)   == [j |-> "bool", v |-> b]
JNum(n)    == [j |-> "num", v |-> n]
JStr(s)    == [j |-> "string", v |-> s]
JArr(xs)   == [j |-> "array", v |-> xs]
JObj(f)    == [j |-> "object", v |-> f]        \* f: a function from strings

\* json.dumps coerces a dict key that is str, int, bool or None to a string;
\* any other key type is a TypeError.
KeyOk(k) == k.t \in {"str", "int", "bool", "none"}
KeyStr(k) ==
    CASE k.t = "str"  -> k.v
      [] k.t = "int"  -> ToString(k.v)
      [] k.t = "bool" -> IF k.v THEN "true" ELSE "false"
      [] OTHER -> "null"

\* TRUE iff json.dumps(x, cls=DjangoJSONEncoder) returns (no TypeError).
RECURSIVE Encodable(_)
Encodable(x) ==
    CASE x.t \in {"none", "bool", "int", "str", "datetime"} -> TRUE
      [] x.t \in {"list", "tuple"} -> \A i \in 1..Len(x.v) : Encodable(x.v[i])
      [] x.t = "dict" -> \A k \in DOMAIN x.v : KeyOk(k) /\ Encodable(x.v[k])
      [] OTHER -> FALSE

\* The document json.dumps(x, cls=DjangoJSONEncoder) writes, for Encodable(x).
\* (The payloads of this model have no two keys with the same KeyStr.)
RECURSIVE Dumps(_)
Dumps(x) ==
    CASE x.t = "none" -> JNull
      [] x.t = "bool" -> JBool(x.v)
      [] x.t = "int"  -> JNum(x.v)
      [] x.t = "str"  -> JStr(x.v)
      [] x.t = "datetime" -> JStr(x.v)
      [] x.t \in {"list", "tuple"} -> JArr([i \in 1..Len(x.v) |-> Dumps(x.v[i])])
      [] x.t = "dict" ->
            JObj([s \in {KeyStr(k) : k \in DOMAIN x.v} |->
                    Dumps(x.v[CHOOSE k \in DOMAIN x.v : KeyStr(k) = s])])

\* json.loads(doc).
RECURSIVE Loads(_)
Loads(d) ==
    CASE d.j = "null"   -> PyNone
      [] d.j = "bool"   -> PyBool(d.v)
      [] d.j = "num"    -> PyInt(d.v)
      [] d.j = "string" -> PyStr(d.v)
      [] d.j = "array"  -> PyList([i \in 1..Len(d.v) |-> Loads(d.v[i])])
      [] d.j = "object" -> PyDict([k \in {PyStr(s) : s \in DOMAIN d.v} |-> Loads(d.v[k.v])])

\* RedisCacheService._serialize_data: the text, or the TypeError re-raised.
SerializeData(data) ==
    IF Encodable(data) THEN [raised |-> "none", text |-> Dumps(data)]
    ELSE [raised |-> "TypeError", text |-> JNull]

\* A _deserialize_data that hands back the text without decoding it.
DeserializeDataUndecoded(text) == PyStr("undecoded")

\* Stored values that are not the JSON text of a payload: characters that
\* are not JSON, and bytes that are not UTF-8.
NotJson == [j |-> "invalid"]
NotUtf8 == [j |-> "bytes"]

\* RedisCacheService._deserialize_data: json.loads, and None for the
\* ValueError of a text that is not JSON.
DeserializeData(text) == IF text = NotJson THEN PyNone ELSE Loads(text)

(***************************************************************************)
(* The cache service (utils/cache_service.py).                             *)
(***************************************************************************)
TRENDING_MOVIES_TTL == 3600
RECOMMENDATIONS_TTL == 3600
USER_INFO_TTL       == 900

TRENDING_MOVIES_KEY == "trending_movies"
RECOMMENDATIONS_KEY == "recommended_movies"
USER_INFO_KEY       == "user"

\* A trending key that leaves the time window out.
TrendingKeyNoWindow(time_window, page) ==
    TRENDING_MOVIES_KEY \o ":page:" \o ToString(page)

\* The f-strings that build the cache keys.
TrendingKey(time_window, page) ==
    TRENDING_MOVIES_KEY \o ":" \o time_window \o ":page:" \o ToString(page)
RecommendationsKey(tmdb_id, page) ==
    RECOMMENDATIONS_KEY \o ":" \o ToString(tmdb_id) \o ":page:" \o ToString(page)
UserKey(user_id) == USER_INFO_KEY \o ":" \o ToString(user_id)

\* The arguments of a call of the service, by category.
NoArgs == [category |-> "none", window |-> "", id |-> 0, page |-> 0]
ArgsTrending(time_window, page) ==
    [category |-> "trending", window |-> time_window, id |-> 0, page |-> page]
ArgsRecommendations(tmdb_id, page) ==
    [category |-> "recommendations", window |-> "", id |-> tmdb_id, page |-> page]
ArgsUser(user_id) == [category |-> "user", window |-> "", id |-> user_id, page |-> 0]

\* Bounds of the model.
TickStep == 3600      \* seconds that pass in one step of the clock
MaxTime  == 7200      \* the clock stops here

\* Arguments the callers of the service use in SpecCache.
Windows  == {"day", "week"}
CacheTrendingArgs == {<<"day", 1>>}
CacheRecArgs      == {<<1, 1>>}
CacheUserArgs     == {1}

\* A TMDB page: {"page": p, "total_pages": tp, "total_results": n, "results": [...]}.
TmdbPage(p, tp, ids) ==
    StrDict([page |-> PyInt(p), total_pages |-> PyInt(tp),
             total_results |-> PyInt(Len(ids)),
             results |-> PyList([i \in 1..Len(ids) |-> StrDict([id |-> PyInt(ids[i])])])])

\* Payloads handed to the set operations in SpecCache.
NativePayloads == {PyNone, EmptyDict, TmdbPage(1, 2, <<123>>)}
OtherPayloads  == {PyTuple(<<PyInt(1), PyInt(2)>>),
                   PyDict([k \in {PyInt(7)} |-> PyStr("a")]),
                   PySet}
CachePayloads  == NativePayloads \cup OtherPayloads

\* Values built only from what JSON has: None, bool, int, str, list and
\* dict with str keys.
RECURSIVE JsonNative(_)
JsonNative(x) ==
    CASE x.t \in {"none", "bool", "int", "str"} -> TRUE
      [] x.t = "list" -> \A i \in 1..Len(x.v) : JsonNative(x.v[i])
      [] x.t = "dict" -> \A k \in DOMAIN x.v : k.t = "str" /\ JsonNative(x.v[k])
      [] OTHER -> FALSE

\* A key that is still served at the instant of its expiry.
LiveInclusive(s, t, key) == key \in DOMAIN s /\ t <= s[key].exp

\* Redis: a key is live until its expiry time.
Live(s, t, key) == key \in DOMAIN s /\ t < s[key].exp
Purge(s, t) == [k \in {x \in DOMAIN s : t < s[x].exp} |-> s[k]]

\* A SETEX that leaves a key that is there as it is (SET ... NX).
SetexIfAbsent(s, t, key, ttl, text, data) ==
    [k \in DOMAIN s \cup {key} |->
        IF k \in DOMAIN s THEN s[k]
        ELSE [val |-> text, exp |-> t + ttl, data |-> data, at |-> t]]

\* A SETEX that drops every other key, one that keeps the key twice as
\* long, and one that writes under the key of page 1 whatever the key.
SetexFlush(s, t, key, ttl, text, data) ==
    [k \in {key} |-> [val |-> text, exp |-> t + ttl, data |-> data, at |-> t]]
SetexTwiceTtl(s, t, key, ttl, text, data) ==
    [k \in DOMAIN s \cup {key} |->
        IF k = key THEN [val |-> text, exp |-> t + 2 * ttl, data |-> data, at |-> t]
        ELSE s[k]]

\* A write that keeps the expiry of the entry it replaces (SET ... KEEPTTL).
SetexKeepExpiry(s, t, key, ttl, text, data) ==
    [k \in DOMAIN s \cup {key} |->
        IF k = key
        THEN [val |-> text, exp |-> IF key \in DOMAIN s THEN s[key].exp ELSE t + ttl,
              data |-> data, at |-> t]
        ELSE s[k]]

\* redis_client.setex(key, ttl, text).  data: the payload the text was made
\* from, and at: the time of the write, kept beside it to state the claims.
Setex(s, t, key, ttl, text, data) ==
    [k \in DOMAIN s \cup {key} |->
        IF k = key THEN [val |-> text, exp |-> t + ttl, data |-> data, at |-> t]
        ELSE s[k]]

\* redis_client.delete(*keys)
Delete(s, keys) == [k \in DOMAIN s \ keys |-> s[k]]

\* A KEYS that matches every key of the keyspace.
KeysAny(s, t, prefix) == {k \in DOMAIN s : t < s[k].exp}

\* redis_client.keys(prefix + ":*"): glob match, over the tails that occur.
KeyTails ==
    {w \o ":page:" \o ToString(p) : w \in Windows, p \in 1..3}
    \cup {ToString(i) \o ":page:" \o ToString(p) : i \in 1..3, p \in 1..3}
    \cup {ToString(u) : u \in 1..3}
Keys(s, t, prefix) ==
    {k \in DOMAIN s : t < s[k].exp /\ \E tail \in KeyTails : k = prefix \o ":" \o tail}

\* An _is_connected that only pings, one that never passes, and one that
\* always passes.
IsConnectedPingOnly == conn
IsConnectedNever == FALSE
IsConnectedAlways == TRUE

\* An _is_connected that does not ping.
IsConnectedNoPing == redis_client # "none"

\* RedisCacheService._is_connected: the client exists and PING answers.
IsConnected == redis_client # "none" /\ conn

\* `if cached_data:` on what GET returned.
EmptyText == [j |-> "empty"]
CachedTruthy(text) == text # EmptyText

\* What a get of key returns from keyspace s at time t on a connected store.
Lookup(s, t, key) ==
    IF Live(s, t, key) /\ CachedTruthy(s[key].val) THEN DeserializeData(s[key].val)
    ELSE PyNone

\* The entry under key, with its value and expiry, or its absence.
Entry(s, key) == IF key \in DOMAIN s THEN <<s[key]>> ELSE <<>>

\* A call of the service as the caller saw it: what it returned (ret) or
\* raised, the store commands it issued (cmds), whether the server answered
\* when it was called (up), whether the probe passed (probe), whether a
\* command failed after the probe (dropped) and whether the keyspace changed.
NoCall == [op |-> "none", key |-> "", data |-> PyNone, ret |-> PyNone,
           raised |-> "none", up |-> FALSE, probe |-> FALSE, dropped |-> FALSE,
           cmds |-> <<>>, changed |-> FALSE]

Call(op, key, data, ret, raised, cmds, newstore) ==
    [op |-> op, key |-> key, data |-> data, ret |-> ret, raised |-> raised,
     up |-> (redis_client # "none" /\ conn), probe |-> IsConnected, dropped |-> FALSE,
     cmds |-> cmds, changed |-> (newstore # store)]
\* A failed command whose exception leaves the operation.
DroppedRaises(call) == [call EXCEPT !.dropped = TRUE, !.raised = "ConnectionError"]
Dropped(call) == [call EXCEPT !.dropped = TRUE]
\* The store answered every command of the call.
Answered(call) == call.up /\ ~call.dropped

\* The body shared by get_trending_movies, get_movie_recommendations and
\* get_user_info.  drop: the connection fails between the probe and GET.
\* The client is built with decode_responses=True: redis_client.get decodes
\* the reply as UTF-8, and its UnicodeDecodeError is not among the exceptions
\* the method catches.
CacheGet(op, key, drop) ==
    /\ UNCHANGED <<redis_client, store, now>>
    /\ IF ~IsConnected
       THEN /\ last' = Call(op, key, PyNone, PyNone, "none", <<>>, store)
            /\ UNCHANGED conn
       ELSE IF drop
       THEN /\ last' = Dropped(Call(op, key, PyNone, PyNone, "none", <<"get">>, store))
            /\ conn' = FALSE
       ELSE IF Live(store, now, key) /\ store[key].val = NotUtf8
       THEN /\ last' = Call(op, key, PyNone, PyNone, "UnicodeDecodeError", <<"get">>, store)
            /\ UNCHANGED conn
       ELSE /\ last' = Call(op, key, PyNone,
                            IF Live(store, now, key) /\ CachedTruthy(store[key].val)
                            THEN DeserializeData(store[key].val)
                            ELSE PyNone,
                            "none", <<"get">>, store)
            /\ UNCHANGED conn

\* The body shared by set_trending_movies, set_movie_recommendations and
\* set_user_info.  _serialize_data runs before SETEX, and its TypeError is
\* not among the exceptions the method catches.
CacheSet(op, key, ttl, data, drop) ==
    /\ UNCHANGED <<redis_client, now>>
    /\ IF ~IsConnected
       THEN /\ last' = Call(op, key, data, PyBool(FALSE), "none", <<>>, store)
            /\ UNCHANGED <<conn, store>>
       ELSE IF SerializeData(data).raised # "none"
       THEN /\ last' = Call(op, key, data, PyNone, SerializeData(data).raised, <<>>, store)
            /\ UNCHANGED <<conn, store>>
       ELSE IF drop
       THEN /\ last' = Dropped(Call(op, key, data, PyBool(FALSE), "none", <<"setex">>, store))
            /\ conn' = FALSE
            /\ UNCHANGED store
       ELSE /\ store' = Setex(store, now, key, ttl, SerializeData(data).text, data)
            /\ last' = Call(op, key, data, PyBool(TRUE), "none", <<"setex">>, store')
            /\ UNCHANGED conn

GetTrendingMovies(time_window, page, drop) ==
    CacheGet("get_trending_movies", TrendingKey(time_window, page), drop)
SetTrendingMovies(data, time_window, page, drop) ==
    CacheSet("set_trending_movies", TrendingKey(time_window, page),
             TRENDING_MOVIES_TTL, data, drop)
GetMovieRecommendations(tmdb_id, page, drop) ==
    CacheGet("get_movie_recommendations", RecommendationsKey(tmdb_id, page), drop)
SetMovieRecommendations(tmdb_id, data, page, drop) ==
    CacheSet("set_movie_recommendations", RecommendationsKey(tmdb_id, page),
             RECOMMENDATIONS_TTL, data, drop)
GetUserInfo(user_id, drop) == CacheGet("get_user_info", UserKey(user_id), drop)
SetUserInfo(user_id, data, drop) ==
    CacheSet("set_user_info", UserKey(user_id), USER_INFO_TTL, data, drop)

InvalidateUserCache(user_id, drop) ==
    /\ UNCHANGED <<redis_client, now>>
    /\ IF ~IsConnected
       THEN /\ last' = Call("invalidate_user_cache", UserKey(user_id), PyNone,
                            PyBool(FALSE), "none", <<>>, store)
            /\ UNCHANGED <<conn, store>>
       ELSE IF drop
       THEN /\ last' = Dropped(Call("invalidate_user_cache", UserKey(user_id), PyNone,
                            PyBool(FALSE), "none", <<"delete">>, store))
            /\ conn' = FALSE
            /\ UNCHANGED store
       ELSE /\ store' = Delete(store, {UserKey(user_id)})
            /\ last' = Call("invalidate_user_cache", UserKey(user_id), PyNone,
                            PyBool(TRUE), "none", <<"delete">>, store')
            /\ UNCHANGED conn

\* clear_all_caches: KEYS and DELETE for each of the three patterns in turn.
\* done: how many patterns were cleared before a command failed (3: none failed).
ClearPatterns == <<TRENDING_MOVIES_KEY, RECOMMENDATIONS_KEY, USER_INFO_KEY>>
RECURSIVE ClearUpTo(_, _, _)
ClearUpTo(s, t, n) ==
    IF n = 0 THEN s
    ELSE Delete(ClearUpTo(s, t, n - 1), Keys(s, t, ClearPatterns[n]))
ClearAllCaches(done) ==
    /\ UNCHANGED <<redis_client, now>>
    /\ IF ~IsConnected
       THEN /\ done = Len(ClearPatterns)
            /\ last' = Call("clear_all_caches", "", PyNone, PyBool(FALSE), "none", <<>>, store)
            /\ UNCHANGED <<conn, store>>
       ELSE /\ store' = ClearUpTo(store, now, done)
            /\ conn' = (done = Len(ClearPatterns))
            /\ LET c == Call("clear_all_caches", "", PyNone,
                             PyBool(done = Len(ClearPatterns)), "none",
                             [i \in 1..(IF done = Len(ClearPatterns) THEN done ELSE done + 1)
                                 |-> "keys"], store')
               IN  last' = IF done = Len(ClearPatterns) THEN c ELSE Dropped(c)

\* The reply of INFO: a dict of the server's counters; a server may leave
\* fields out, and info.get(field, default) fills them in.
InfoReplies ==
    {[used_memory_human |-> PyStr("1.00M"), connected_clients |-> PyInt(1),
      total_commands_processed |-> PyInt(5), keyspace_hits |-> PyInt(2),
      keyspace_misses |-> PyInt(3)],
     [connected_clients |-> PyInt(1)]}
InfoGet(info, field, default) == IF field \in DOMAIN info THEN info[field] ELSE default

\* The dict get_cache_stats returns from a connected store.
StatsDict(info, dbsize) ==
    StrDict([status |-> PyStr("connected"),
             used_memory |-> InfoGet(info, "used_memory_human", PyStr("N/A")),
             connected_clients |-> InfoGet(info, "connected_clients", PyInt(0)),
             total_commands_processed |-> InfoGet(info, "total_commands_processed", PyInt(0)),
             keyspace_hits |-> InfoGet(info, "keyspace_hits", PyInt(0)),
             keyspace_misses |-> InfoGet(info, "keyspace_misses", PyInt(0)),
             total_keys |-> PyInt(dbsize)])

\* get_cache_stats.  info: what INFO replies; drop: the connection fails
\* between the probe and the replies.
GetCacheStats(drop, info) ==
    /\ UNCHANGED <<redis_client, store, now>>
    /\ IF ~IsConnected
       THEN /\ last' = Call("get_cache_stats", "", PyNone,
                            StrDict([status |-> PyStr("disconnected")]), "none", <<>>, store)
            /\ UNCHANGED conn
       ELSE IF drop
       THEN /\ last' = Dropped(Call("get_cache_stats", "", PyNone,
                            StrDict([status |-> PyStr("error"),
                                     error |-> PyStr("Connection refused")]),
                            "none", <<"info">>, store))
            /\ conn' = FALSE
       ELSE /\ last' = Call("get_cache_stats", "", PyNone,
                            StatsDict(info, Cardinality(DOMAIN Purge(store, now))),
                            "none", <<"info", "dbsize">>, store)
            /\ UNCHANGED conn

\* The environment: the server goes away, comes back, and time passes.
Disconnect ==
    /\ conn
    /\ conn' = FALSE
    /\ UNCHANGED <<redis_client, store, now, last, cl, req, args, favorites>>
Reconnect ==
    /\ ~conn
    /\ conn' = TRUE
    /\ UNCHANGED <<redis_client, store, now, last, cl, req, args, favorites>>
Tick ==
    /\ now + TickStep <= MaxTime
    /\ now' = now + TickStep
    /\ store' = Purge(store, now')
    /\ UNCHANGED <<redis_client, conn, last, cl, req, args, favorites>>

(***************************************************************************)
(* Exceptions (utils/exceptions.py): class, status_code, error_code.       *)
(***************************************************************************)
NoExc == [cls |-> "none", status_code |-> 0, error_code |-> ""]
Exc(cls, status_code, error_code) ==
    [cls |-> cls, status_code |-> status_code, error_code |-> error_code]
ExternalAPIException(status_code, error_code) ==
    Exc("ExternalAPIException", status_code, error_code)
ExternalAPIExceptionDefault == ExternalAPIException(502, "EXTERNAL_API_ERROR")
ValidationAPIException == Exc("ValidationAPIException", 400, "VALIDATION_ERROR")
AuthenticationAPIException == Exc("AuthenticationAPIException", 401, "AUTHENTICATION_ERROR")
RateLimitAPIException == Exc("RateLimitAPIException", 429, "RATE_LIMIT_ERROR")
\* Python's built-in exceptions carry no status or code.
ValueError == Exc("ValueError", 0, "")
AttributeError == Exc("AttributeError", 0, "")

\* The classes deriving from utils.exceptions.APIException.
APIExceptionClasses == {"APIException", "ExternalAPIException", "ValidationAPIException",
                        "AuthenticationAPIException", "RateLimitAPIException"}

(***************************************************************************)
(* The external API client (utils/tmdb_client.py).                         *)
(***************************************************************************)
MAX_RETRIES == 3
RETRY_DELAY == 1

\* What one session.get() ends with: an exception of requests, or a response.
Undecodable == [t |-> "undecodable"]     \* a body that is not JSON
Timeout         == [k |-> "Timeout", status |-> 0, body |-> PyNone]
ConnectionError == [k |-> "ConnectionError", status |-> 0, body |-> PyNone]
RequestError    == [k |-> "RequestException", status |-> 0, body |-> PyNone]
OtherError      == [k |-> "Exception", status |-> 0, body |-> PyNone]
Response(status, body) == [k |-> "response", status |-> status, body |-> body]

Statuses == {200, 204, 400, 401, 403, 404, 429, 500, 503}
Bodies   == {TmdbPage(1, 2, <<123>>), TmdbPage(2, 2, <<>>), Undecodable}
Outcomes ==
    {Timeout, ConnectionError, RequestError, OtherError}
    \cup {Response(200, b) : b \in Bodies}
    \cup {Response(st, PyNone) : st \in Statuses \ {200}}

\* TMDbClient._handle_response: the value returned, or the exception raised.
\* response.json() raises requests' JSONDecodeError on a body that is not JSON.
HandleResponse(response) ==
    IF response.status = 200
    THEN IF response.body = Undecodable
         THEN [raised |-> Exc("JSONDecodeError", 0, ""), value |-> PyNone]
         ELSE [raised |-> NoExc, value |-> response.body]
    ELSE IF response.status = 401 THEN [raised |-> AuthenticationAPIException, value |-> PyNone]
    ELSE IF response.status = 403 THEN [raised |-> AuthenticationAPIException, value |-> PyNone]
    ELSE IF response.status = 404
    THEN [raised |-> ExternalAPIException(404, "MOVIE_NOT_FOUND"), value |-> PyNone]
    ELSE IF response.status = 429 THEN [raised |-> RateLimitAPIException, value |-> PyNone]
    ELSE [raised |-> ExternalAPIExceptionDefault, value |-> PyNone]

\* An except dispatch that also retries a rate-limited request.
ExceptClauseRetry429(exc_cls) ==
    IF exc_cls \in {"Timeout", "RateLimitAPIException"} THEN "Timeout"
    ELSE IF exc_cls = "ConnectionError" THEN "ConnectionError"
    ELSE IF exc_cls \in {"RequestException", "JSONDecodeError"} THEN "RequestException"
    ELSE "Exception"

\* The except clause of _make_request that takes an exception raised in its
\* try block.  _handle_response is called inside the try block, and the
\* exceptions it raises derive from Exception, not from requests' classes.
ExceptClause(exc_cls) ==
    IF exc_cls = "Timeout" THEN "Timeout"
    ELSE IF exc_cls = "ConnectionError" THEN "ConnectionError"
    ELSE IF exc_cls \in {"RequestException", "JSONDecodeError"} THEN "RequestException"
    ELSE "Exception"

\* Retry guards that are off by one, either way.
CanRetryOneMore(retry_count) == retry_count <= MAX_RETRIES
CanRetryOneLess(retry_count) == retry_count < MAX_RETRIES - 1

\* `if retry_count < self.MAX_RETRIES`
CanRetry(retry_count) == retry_count < MAX_RETRIES

\* A delay that grows by RETRY_DELAY with every retry.
BackoffLinear(retry_count) == RETRY_DELAY * (retry_count + 1)

\* `self.RETRY_DELAY * (2 ** retry_count)`
Backoff(retry_count) == RETRY_DELAY * (2 ^ retry_count)

\* str(e) of what one session.get() and _handle_response ended with: the
\* text an exception of session.get() carries (its body in the model), or
\* the message _handle_response gives its exception.
Raises(k, text) == [k |-> k, status |-> 0, body |-> PyStr(text)]
OutcomeText(outcome) ==
    IF outcome.k # "response"
    THEN (IF outcome.body.t = "str" THEN outcome.body.v ELSE "")
    ELSE IF outcome.status = 200 THEN "Expecting value"
    ELSE IF outcome.status = 401 THEN "TMDB API authentication failed"
    ELSE IF outcome.status = 403 THEN "TMDB API access forbidden"
    ELSE IF outcome.status = 404 THEN "Movie not found"
    ELSE IF outcome.status = 429 THEN "TMDB API rate limit exceeded"
    ELSE IF outcome.status >= 500 THEN "TMDB API server error: " \o ToString(outcome.status)
    ELSE "TMDB API error: " \o ToString(outcome.status)

\* The message of the ExternalAPIException an except clause of
\* _make_request raises.
ExceptMessage(clause, text) ==
    IF clause = "Timeout" THEN "TMDB API request timeout"
    ELSE IF clause = "ConnectionError" THEN "TMDB API connection failed"
    ELSE IF clause = "RequestException" THEN "TMDB API request failed: " \o text
    ELSE "Unexpected error: " \o text

\* A call of the client: its position, its arguments and what it has done;
\* message: str(e) of the exception it raised.
ClIdle == [pc |-> "idle", op |-> "none", time_window |-> PyNone, page |-> PyNone,
           movie_id |-> PyNone, query |-> PyNone, retry_count |-> 0, attempts |-> 0,
           sleeps |-> <<>>, outcomes |-> <<>>, raised |-> NoExc, value |-> PyNone,
           message |-> ""]

\* str.isdigit() and a blank str, for the strings of at most two characters
\* that the model passes.
Digits      == {"0", "1", "2", "3", "4", "5", "6", "7", "8", "9"}
DigitStrs   == Digits \cup {a \o b : a \in Digits, b \in Digits}
Str(x)      == IF x.t = "int" THEN ToString(x.v) ELSE IF x.t = "str" THEN x.v ELSE "None"
IsDigit(s)  == s \in DigitStrs
IsBlank(s)  == s \in {"", " ", "  "}

\* The checks at the head of the five public methods: TRUE iff ValueError.
TimeWindowInvalid(time_window) == time_window \notin {PyStr("day"), PyStr("week")}
PageInvalid(page) == page.v < 1
MovieIdInvalid(movie_id) == ~Truthy(movie_id) \/ ~IsDigit(Str(movie_id))
QueryInvalid(query) == ~Truthy(query) \/ IsBlank(query.v)

ClientInvalid(op, time_window, page, movie_id, query) ==
    CASE op = "get_trending_movies" -> TimeWindowInvalid(time_window) \/ PageInvalid(page)
      [] op = "get_movie_details" -> MovieIdInvalid(movie_id)
      [] op = "search_movies" -> QueryInvalid(query) \/ PageInvalid(page)
      [] op = "get_movie_recommendations" -> MovieIdInvalid(movie_id) \/ PageInvalid(page)
      [] op = "get_popular_movies" -> PageInvalid(page)

\* The message of the ValueError a public method raises.
ClientValueMessage(op, time_window, page, movie_id, query) ==
    IF op = "get_trending_movies" /\ TimeWindowInvalid(time_window)
    THEN "time_window must be 'day' or 'week'"
    ELSE IF op \in {"get_movie_details", "get_movie_recommendations"} /\ MovieIdInvalid(movie_id)
    THEN "movie_id must be a valid integer"
    ELSE IF op = "search_movies" /\ QueryInvalid(query) THEN "query cannot be empty"
    ELSE "page must be greater than 0"

\* Entering a public method: ValueError before any request, or the first
\* _make_request with retry_count = 0.
ClientStart(op, time_window, page, movie_id, query) ==
    IF ClientInvalid(op, time_window, page, movie_id, query)
    THEN [ClIdle EXCEPT !.pc = "done", !.op = op, !.time_window = time_window,
                        !.page = page, !.movie_id = movie_id, !.query = query,
                        !.raised = ValueError,
                        !.message = ClientValueMessage(op, time_window, page, movie_id, query)]
    ELSE [ClIdle EXCEPT !.pc = "request", !.op = op, !.time_window = time_window,
                        !.page = page, !.movie_id = movie_id, !.query = query]

\* One run of _make_request's try block, with what session.get() ended with.
\* The recursive call sits in the except clause, so what it raises leaves
\* the method unchanged.
ClientAttempt(c, outcome) ==
    LET c1 == [c EXCEPT !.attempts = @ + 1, !.outcomes = Append(@, outcome)]
        r  == HandleResponse(outcome)
        thrown == IF outcome.k = "response" THEN r.raised.cls ELSE outcome.k
    IN  IF outcome.k = "response" /\ r.raised = NoExc
        THEN [c1 EXCEPT !.pc = "done", !.value = r.value]
        ELSE IF ExceptClause(thrown) \in {"Timeout", "ConnectionError"}
        THEN IF CanRetry(c.retry_count)
             THEN [c1 EXCEPT !.sleeps = Append(@, Backoff(c.retry_count)),
                             !.retry_count = @ + 1]
             ELSE [c1 EXCEPT !.pc = "done", !.raised = ExternalAPIExceptionDefault,
                             !.message = ExceptMessage(ExceptClause(thrown), OutcomeText(outcome))]
        ELSE [c1 EXCEPT !.pc = "done", !.raised = ExternalAPIExceptionDefault,
                        !.message = ExceptMessage(ExceptClause(thrown), OutcomeText(outcome))]

\* Arguments the callers of the client use in SpecClient.
ClientWindows  == {PyStr("day"), PyStr("week"), PyStr("month"), PyNone}
ClientPages    == {PyInt(-1), PyInt(0), PyInt(1), PyInt(2)}
ClientMovieIds == {PyInt(-1), PyInt(0), PyInt(5), PyInt(12), PyNone,
                   PyStr(""), PyStr("ab"), PyStr("0"), PyStr("5"), PyStr("-1")}
ClientQueries  == {PyNone, PyStr(""), PyStr(" "), PyStr("up")}

\* SpecClient: a caller enters one of the public methods.
CallTrending(time_window, page) ==
    /\ cl.pc # "request"
    /\ cl' = ClientStart("get_trending_movies", time_window, page, PyNone, PyNone)
    /\ UNCHANGED <<redis_client, conn, store, now, last, req, args, favorites>>
CallDetails(movie_id) ==
    /\ cl.pc # "request"
    /\ cl' = ClientStart("get_movie_details", PyNone, PyNone, movie_id, PyNone)
    /\ UNCHANGED <<redis_client, conn, store, now, last, req, args, favorites>>
CallSearch(query, page) ==
    /\ cl.pc # "request"
    /\ cl' = ClientStart("search_movies", PyNone, page, PyNone, query)
    /\ UNCHANGED <<redis_client, conn, store, now, last, req, args, favorites>>
CallRecommendations(movie_id, page) ==
    /\ cl.pc # "request"
    /\ cl' = ClientStart("get_movie_recommendations", PyNone, page, movie_id, PyNone)
    /\ UNCHANGED <<redis_client, conn, store, now, last, req, args, favorites>>
CallPopular(page) ==
    /\ cl.pc # "request"
    /\ cl' = ClientStart("get_popular_movies", PyNone, page, PyNone, PyNone)
    /\ UNCHANGED <<redis_client, conn, store, now, last, req, args, favorites>>

\* SpecClient: session.get() of the call in progress ends.
MakeRequest(outcome) ==
    /\ cl.pc = "request"
    /\ cl' = ClientAttempt(cl, outcome)
    /\ UNCHANGED <<redis_client, conn, store, now, last, req, args, favorites>>

(***************************************************************************)
(* The request handlers (movies/views.py).  The upstream keeps to its      *)
(* interface: a 200 response that decodes is a TMDB page.                  *)
(***************************************************************************)
\* TMDbPagination.get_paginated_response: a TMDB page is passed on; for any
\* other data it reads self.page, which was never set.
IsTmdbData(data) ==
    data.t = "dict" /\ PyStr("page") \in DOMAIN data.v /\ PyStr("total_pages") \in DOMAIN data.v

NoResponse == [status |-> 0, code |-> "", payload |-> PyNone]

\* How a call of a function ended: the exception it raised with its
\* message, or the value it returned.
NoResult == [raised |-> NoExc, message |-> "", value |-> PyNone]
Raised(exc, message) == [raised |-> exc, message |-> message, value |-> PyNone]
Returned(value) == [raised |-> NoExc, message |-> "", value |-> value]
HttpResponse(status, code, payload) == [status |-> status, code |-> code, payload |-> payload]

\* Except clauses without the one for ExternalAPIException.
HandlerErrorNoExternalClause(view, exc) ==
    IF exc.cls \in {"ValueError", "ValidationAPIException"}
    THEN HttpResponse(400, "VALIDATION_ERROR", PyNone)
    ELSE HttpResponse(500, "INTERNAL_ERROR", PyNone)

\* The except clauses of the handlers, in their order: MovieDetailView has
\* no clause for ValueError, and only MovieDetailView and
\* MovieRecommendationsView have one for ValidationAPIException.
HandlerError(view, exc) ==
    IF exc.cls = "ValueError" /\ view # "details"
    THEN HttpResponse(400, "VALIDATION_ERROR", PyNone)
    ELSE IF view \in {"recommendations", "details"} /\ exc.cls = "ValidationAPIException"
    THEN HttpResponse(400, "VALIDATION_ERROR", PyNone)
    ELSE IF exc.cls = "ExternalAPIException"
    THEN HttpResponse(exc.status_code, exc.error_code, PyNone)
    ELSE HttpResponse(500, "INTERNAL_ERROR", PyNone)

\* The 'message' of the error body: str(e) in the clauses for ValueError,
\* ValidationAPIException and ExternalAPIException, a fixed text in the
\* clause for Exception.
HandlerMessage(view, exc, text) ==
    IF HandlerError(view, exc) = HttpResponse(500, "INTERNAL_ERROR", PyNone)
          /\ exc.cls # "ExternalAPIException"
    THEN "An unexpected error occurred"
    ELSE text

\* str(e) of the exception the checks at the head of a handler raise.
ValidationMessage(view, time_window, page, movie_id, query) ==
    IF view = "trending" /\ TimeWindowInvalid(time_window)
    THEN "time_window must be 'day' or 'week'"
    ELSE IF view \in {"recommendations", "details"} /\ MovieIdInvalid(movie_id)
    THEN "Movie ID must be a valid integer"
    ELSE IF view = "search" /\ IsBlank(query.v) THEN "Query parameter cannot be empty"
    ELSE IF page.t # "int" THEN "invalid literal for int() with base 10: " \o Str(page)
    ELSE "Page must be greater than 0"

\* The message of the response that get_paginated_response ends in.
PaginatedMessage(view, data) ==
    IF IsTmdbData(data) THEN ""
    ELSE HandlerMessage(view, AttributeError, "'TMDbPagination' object has no attribute 'page'")

\* `return paginator.get_paginated_response(data)` inside the handler's try.
Paginated(view, data) ==
    IF IsTmdbData(data) THEN HttpResponse(200, "", data)
    ELSE HandlerError(view, AttributeError)

\* A handler that never takes the cached branch.
ServesFromCacheNever(cached) == FALSE

\* `if cached_movies:` / `if cached_recommendations:` / `if cached_user_info:`
ServesFromCache(cached) == Truthy(cached)

\* int(request.GET.get('page', 1)): page is the text of the parameter.
IntOk(page) == page.t = "int"

\* request.GET.get('query', '').strip() and `if not query`.
HandlerQueryInvalid(query) == IsBlank(query.v)

\* The checks at the head of a handler, in their order: the exception
\* raised, or NoExc.  MovieDetailView reads no page.
HandlerValidation(view, time_window, page, movie_id, query) ==
    IF view = "trending" /\ TimeWindowInvalid(time_window) THEN ValidationAPIException
    ELSE IF view \in {"recommendations", "details"} /\ MovieIdInvalid(movie_id)
    THEN ValidationAPIException
    ELSE IF view = "search" /\ HandlerQueryInvalid(query) THEN ValidationAPIException
    ELSE IF view = "details" THEN NoExc
    ELSE IF ~IntOk(page) THEN ValueError
    ELSE IF PageInvalid(page) THEN ValidationAPIException
    ELSE NoExc

ReqIdle == [pc |-> "idle", view |-> "none", time_window |-> PyNone, page |-> PyNone,
            movie_id |-> PyNone, query |-> PyNone, cached |-> PyNone, c |-> ClIdle,
            trace |-> <<>>, response |-> NoResponse, message |-> "", user_id |-> 0,
            user_info |-> PyNone, inner |-> NoResult, outer |-> NoResult]

\* What the requests of Spec ask for.
ReqWindows  == {PyStr("day"), PyStr("week"), PyStr("month")}
ReqPages    == {PyInt(0), PyInt(1), PyStr("x")}
ReqMovieIds == {PyInt(0), PyInt(1)}
\* What the upstream answers in Spec.
ReqOutcomes == {Timeout, Response(200, TmdbPage(1, 2, <<123>>)),
                Response(200, TmdbPage(1, 1, <<>>)), Response(404, PyNone)}

\* The arguments the handler passes to the cache service.
ReqArgs(q) ==
    IF q.view = "trending" THEN ArgsTrending(q.time_window.v, q.page.v)
    ELSE ArgsRecommendations(q.movie_id.v, q.page.v)

ReqKey(q) ==
    IF q.view = "trending" THEN TrendingKey(q.time_window.v, q.page.v)
    ELSE RecommendationsKey(q.movie_id.v, q.page.v)

\* A request arrives at worker r and is validated.
ReqStart(r, view, time_window, page, movie_id) ==
    /\ req[r].pc \in {"idle", "done"}
    /\ LET e == HandlerValidation(view, time_window, page, movie_id, PyNone)
           q == [ReqIdle EXCEPT !.view = view, !.time_window = time_window,
                                !.page = page, !.movie_id = movie_id]
       IN  req' = [req EXCEPT ![r] =
                IF e = NoExc THEN [q EXCEPT !.pc = "get"]
                ELSE [q EXCEPT !.pc = "done", !.response = HandlerError(view, e),
                               !.message = HandlerMessage(view, e,
                                   ValidationMessage(view, time_window, page, movie_id, PyNone))]]
    /\ UNCHANGED <<redis_client, conn, store, now, last, cl, args, favorites>>

\* The public method of the client that the handler of a view calls.
ViewOp(view) ==
    CASE view = "trending" -> "get_trending_movies"
      [] view = "recommendations" -> "get_movie_recommendations"
      [] view = "search" -> "search_movies"
      [] view = "details" -> "get_movie_details"
      [] view = "popular" -> "get_popular_movies"

\* A request arrives at worker r for a view that has no cache (search,
\* details, popular): it is validated, and then TMDbClient() and the entry
\* into its public method.
ReqStartUncached(r, view, page, movie_id, query) ==
    /\ req[r].pc \in {"idle", "done"}
    /\ LET e == HandlerValidation(view, PyNone, page, movie_id, query)
           q == [ReqIdle EXCEPT !.view = view, !.page = page, !.movie_id = movie_id,
                                !.query = query]
       IN  req' = [req EXCEPT ![r] =
                IF e # NoExc
                THEN [q EXCEPT !.pc = "done", !.response = HandlerError(view, e),
                               !.message = HandlerMessage(view, e,
                                   ValidationMessage(view, PyNone, page, movie_id, query))]
                ELSE LET c == ClientStart(ViewOp(view), PyNone, page, movie_id, query)
                         q1 == [q EXCEPT !.c = c,
                                         !.trace = <<[e |-> "fetch", key |-> "", data |-> PyNone,
                                                      up |-> TRUE]>>]
                     IN  IF c.raised # NoExc
                         THEN [q1 EXCEPT !.pc = "done", !.response = HandlerError(view, c.raised),
                                         !.message = HandlerMessage(view, c.raised, c.message)]
                         ELSE [q1 EXCEPT !.pc = "fetch"]]
    /\ UNCHANGED <<redis_client, conn, store, now, last, cl, args, favorites>>

\* cache_service.get_...(); on a hit the response, on a miss TMDbClient()
\* and the entry into its public method.  A UnicodeDecodeError that leaves
\* the service is a ValueError, for which the handler has a clause.
ReqCacheGet(r, drop) ==
    /\ req[r].pc = "get"
    /\ IF req[r].view = "trending"
       THEN GetTrendingMovies(req[r].time_window.v, req[r].page.v, drop)
       ELSE GetMovieRecommendations(req[r].movie_id.v, req[r].page.v, drop)
    /\ LET q  == req[r]
           q1 == [q EXCEPT !.cached = last'.ret,
                           !.trace = Append(@, [e |-> "get", key |-> last'.key, data |-> PyNone,
                                               up |-> Answered(last')])]
       IN  req' = [req EXCEPT ![r] =
                IF last'.raised # "none"
                THEN [q1 EXCEPT !.pc = "done",
                                !.response = HandlerError(q.view, ValueError),
                                !.message = HandlerMessage(q.view, ValueError,
                                                "'utf-8' codec can't decode byte")]
                ELSE IF ServesFromCache(last'.ret)
                THEN [q1 EXCEPT !.pc = "done", !.response = Paginated(q.view, last'.ret),
                                !.message = PaginatedMessage(q.view, last'.ret)]
                ELSE [q1 EXCEPT !.pc = "fetch",
                                !.trace = Append(@, [e |-> "fetch", key |-> "", data |-> PyNone,
                                                    up |-> TRUE]),
                                !.c = IF q.view = "trending"
                                      THEN ClientStart("get_trending_movies", q.time_window,
                                                       q.page, PyNone, PyNone)
                                      ELSE ClientStart("get_movie_recommendations", PyNone,
                                                       q.page, q.movie_id, PyNone)]]
    /\ args' = ReqArgs(req[r])
    /\ UNCHANGED <<cl, favorites>>

\* One session.get() of the request's fetch ends; an exception that leaves
\* the client ends the request in the handler's except clauses.
ReqFetch(r, outcome) ==
    /\ req[r].pc = "fetch"
    /\ LET q  == req[r]
           c1 == IF q.c.pc = "request" THEN ClientAttempt(q.c, outcome) ELSE q.c
       IN  req' = [req EXCEPT ![r] =
                IF c1.pc = "request" THEN [q EXCEPT !.c = c1]
                ELSE IF c1.raised # NoExc
                THEN [q EXCEPT !.c = c1, !.pc = "done", !.response = HandlerError(q.view, c1.raised),
                               !.message = HandlerMessage(q.view, c1.raised, c1.message)]
                ELSE IF q.view \in {"search", "popular"}
                THEN [q EXCEPT !.c = c1, !.pc = "done", !.response = Paginated(q.view, c1.value),
                               !.message = PaginatedMessage(q.view, c1.value)]
                ELSE IF q.view = "details"
                THEN [q EXCEPT !.c = c1, !.pc = "done", !.response = HttpResponse(200, "", c1.value)]
                ELSE [q EXCEPT !.c = c1, !.pc = "set"]]
    /\ UNCHANGED <<redis_client, conn, store, now, last, cl, args, favorites>>

\* cache_service.set_...() with what the fetch returned, then the response.
ReqCacheSet(r, drop) ==
    /\ req[r].pc = "set"
    /\ IF req[r].view = "trending"
       THEN SetTrendingMovies(req[r].c.value, req[r].time_window.v, req[r].page.v, drop)
       ELSE SetMovieRecommendations(req[r].movie_id.v, req[r].c.value, req[r].page.v, drop)
    /\ LET q == req[r]
       IN  req' = [req EXCEPT ![r] =
                [q EXCEPT !.pc = "done",
                          !.trace = Append(@, [e |-> "set", key |-> last'.key, data |-> last'.data,
                                              up |-> Answered(last')]),
                          !.response = IF last'.raised # "none"
                                       THEN HandlerError(q.view, Exc(last'.raised, 0, ""))
                                       ELSE Paginated(q.view, q.c.value),
                          !.message = IF last'.raised # "none"
                                      THEN HandlerMessage(q.view, Exc(last'.raised, 0, ""),
                                                          "Object is not JSON serializable")
                                      ELSE PaginatedMessage(q.view, q.c.value)]]
    /\ args' = ReqArgs(req[r])
    /\ UNCHANGED <<cl, favorites>>

\* request.build_absolute_uri(): the URL of request q, its page parameter
\* apart from the rest.
Url(q) == [view |-> q.view, time_window |-> q.time_window, movie_id |-> q.movie_id,
           query |-> q.query, page |-> q.page]

\* url.replace(f'page={current_page}', f'page={n}') when the URL has a page
\* parameter, and the parameter appended when it has none.
ReplacePage(url, current_page, n) ==
    IF url.page = PyNone THEN [url EXCEPT !.page = PyInt(n)]
    ELSE IF Str(url.page) = ToString(current_page) THEN [url EXCEPT !.page = PyInt(n)]
    ELSE url

\* getattr(self, 'request', None) of the paginator: the handlers build it
\* with self.pagination_class() and call get_paginated_response on it; the
\* request attribute is set by paginate_queryset only, which none calls.
NoRequest == [view |-> "none"]
PaginatorRequest(q) == NoRequest

\* TMDbPagination._get_next_url and _get_previous_url: the link, or None.
GetNextUrl(request, data) ==
    LET current_page == data.v[PyStr("page")].v
        total_pages == data.v[PyStr("total_pages")].v
    IN  IF current_page < total_pages /\ request # NoRequest
        THEN ReplacePage(request, current_page, current_page + 1)
        ELSE PyNone
GetPreviousUrl(request, data) ==
    LET current_page == data.v[PyStr("page")].v
    IN  IF current_page > 1 /\ request # NoRequest
        THEN ReplacePage(request, current_page, current_page - 1)
        ELSE PyNone

(***************************************************************************)
(* The handlers of users/views.py: the profile and the favorites.          *)
(***************************************************************************)
\* user_info as UserInfoView.get builds it; of its fields the id, is_active
\* and the count of the user's FavoriteMovie rows are kept.
UserInfo(user_id, fav) ==
    StrDict([id |-> PyInt(user_id), is_active |-> PyBool(TRUE),
             favorites_count |-> PyInt(Cardinality({f \in fav : f[1] = user_id}))])

\* Response({'success': True, 'data': ..., 'cached': ...})
ProfileResponse(data, cached) ==
    HttpResponse(200, "", StrDict([success |-> PyBool(TRUE), data |-> data,
                                   cached |-> PyBool(cached)]))

\* GET profile/ of an authenticated user arrives at worker r.
ProfileStart(r, user_id) ==
    /\ req[r].pc \in {"idle", "done"}
    /\ req' = [req EXCEPT ![r] =
                [ReqIdle EXCEPT !.pc = "profile_get", !.view = "profile", !.user_id = user_id]]
    /\ UNCHANGED <<redis_client, conn, store, now, last, cl, args, favorites>>

\* cache_service.get_user_info(user.id) and `if cached_user_info:`.
ProfileCacheGet(r, drop) ==
    /\ req[r].pc = "profile_get"
    /\ GetUserInfo(req[r].user_id, drop)
    /\ args' = ArgsUser(req[r].user_id)
    /\ LET q1 == [req[r] EXCEPT
                    !.cached = last'.ret,
                    !.trace = Append(@, [e |-> "get", key |-> last'.key, data |-> PyNone,
                                         up |-> Answered(last')])]
       IN  req' = [req EXCEPT ![r] =
                IF ServesFromCache(last'.ret)
                THEN [q1 EXCEPT !.pc = "done", !.response = ProfileResponse(last'.ret, TRUE)]
                ELSE [q1 EXCEPT !.pc = "profile_build"]]
    /\ UNCHANGED <<cl, favorites>>

\* user_info = {...}: the rows of the user are counted.
ProfileBuild(r) ==
    /\ req[r].pc = "profile_build"
    /\ req' = [req EXCEPT ![r] =
                [req[r] EXCEPT !.pc = "profile_set",
                               !.user_info = UserInfo(req[r].user_id, favorites)]]
    /\ UNCHANGED <<redis_client, conn, store, now, last, cl, args, favorites>>

\* cache_service.set_user_info(user.id, user_info), then the response.  The
\* handler has no try block: an exception of the service is a 500.
ProfileCacheSet(r, drop) ==
    /\ req[r].pc = "profile_set"
    /\ SetUserInfo(req[r].user_id, req[r].user_info, drop)
    /\ args' = ArgsUser(req[r].user_id)
    /\ req' = [req EXCEPT ![r] =
                [req[r] EXCEPT
                    !.pc = "done",
                    !.trace = Append(@, [e |-> "set", key |-> last'.key, data |-> last'.data,
                                         up |-> Answered(last')]),
                    !.response = IF last'.raised # "none"
                                 THEN HttpResponse(500, "INTERNAL_ERROR", PyNone)
                                 ELSE ProfileResponse(req[r].user_info, FALSE)]]
    /\ UNCHANGED <<cl, favorites>>

\* AddFavoriteMovieView.create up to serializer.save(): the exists() query
\* finds the movie in the favorites, which is a 400, or the view goes on.
FavoriteAdd(r, user_id, tmdb_id) ==
    /\ req[r].pc \in {"idle", "done"}
    /\ LET q == [ReqIdle EXCEPT !.view = "add_favorite", !.user_id = user_id,
                                !.movie_id = PyInt(tmdb_id)]
       IN  IF <<user_id, tmdb_id>> \in favorites
           THEN /\ req' = [req EXCEPT ![r] =
                        [q EXCEPT !.pc = "done", !.response = HttpResponse(400, "", PyNone)]]
                /\ UNCHANGED favorites
           ELSE /\ req' = [req EXCEPT ![r] = [q EXCEPT !.pc = "favorite_save"]]
                /\ UNCHANGED favorites
    /\ UNCHANGED <<redis_client, conn, store, now, last, cl, args>>

\* serializer.save(): AddFavoriteMovieSerializer.create calls
\* FavoriteMovie.objects.get_or_create(user, tmdb_id), which returns the row
\* that is there or creates one; inner keeps its `created`.
FavoriteSave(r) ==
    /\ req[r].pc = "favorite_save"
    /\ LET row == <<req[r].user_id, req[r].movie_id.v>>
       IN  /\ favorites' = favorites \cup {row}
           /\ req' = [req EXCEPT ![r].pc = "favorite_invalidate",
                                 ![r].inner = Returned(PyBool(row \notin favorites))]
    /\ UNCHANGED <<redis_client, conn, store, now, last, cl, args>>

\* RemoveFavoriteMovieView.destroy up to perform_destroy(): get_object() is
\* a 404 for a row that is not the user's, otherwise the row is deleted.
FavoriteRemove(r, user_id, tmdb_id) ==
    /\ req[r].pc \in {"idle", "done"}
    /\ LET q == [ReqIdle EXCEPT !.view = "remove_favorite", !.user_id = user_id,
                                !.movie_id = PyInt(tmdb_id)]
       IN  IF <<user_id, tmdb_id>> \notin favorites
           THEN /\ req' = [req EXCEPT ![r] =
                        [q EXCEPT !.pc = "done", !.response = HttpResponse(404, "NOT_FOUND", PyNone)]]
                /\ UNCHANGED favorites
           ELSE /\ req' = [req EXCEPT ![r] = [q EXCEPT !.pc = "favorite_invalidate"]]
                /\ favorites' = favorites \ {<<user_id, tmdb_id>>}
    /\ UNCHANGED <<redis_client, conn, store, now, last, cl, args>>

\* cache_service.invalidate_user_cache(request.user.id), then the 201 of the
\* add or the 200 of the remove.
FavoriteInvalidate(r, drop) ==
    /\ req[r].pc = "favorite_invalidate"
    /\ InvalidateUserCache(req[r].user_id, drop)
    /\ args' = ArgsUser(req[r].user_id)
    /\ req' = [req EXCEPT ![r] =
                [req[r] EXCEPT
                    !.pc = "done",
                    !.trace = Append(@, [e |-> "invalidate", key |-> last'.key, data |-> PyNone,
                                         up |-> Answered(last')]),
                    !.response = HttpResponse(IF req[r].view = "add_favorite" THEN 201 ELSE 200,
                                              "", PyNone)]]
    /\ UNCHANGED <<cl, favorites>>

(***************************************************************************)
(* Error handling around a view: the decorator handle_api_errors           *)
(* (utils/decorators.py) and the exception handler of the framework,       *)
(* custom_exception_handler (utils/exceptions.py).  An error_code of None  *)
(* is the empty string.                                                    *)
(***************************************************************************)
\* isinstance(e, ValueError): ValueError and its subclasses.
ValueErrorClasses == {"ValueError", "JSONDecodeError", "UnicodeDecodeError"}
\* The exceptions of rest_framework.exceptions and their status codes.
DrfExceptionClasses == {"NotAuthenticated", "Throttled"}
DrfStatus(cls) == IF cls = "NotAuthenticated" THEN 401 ELSE 429

\* A wrapper that passes every exception through.
HandleApiErrorsReraise(result) == result

\* handle_api_errors: what the wrapper ends with when func ended with result.
HandleApiErrors(result) ==
    IF result.raised = NoExc THEN result
    ELSE IF result.raised.cls \in APIExceptionClasses THEN result
    ELSE IF result.raised.cls \in ValueErrorClasses
    THEN Raised(ValidationAPIException, result.message)
    ELSE Raised(Exc("APIException", 500, ""), "An unexpected error occurred")

\* rest_framework.views.exception_handler: a response for the exceptions of
\* rest_framework and for Django's Http404 and PermissionDenied, which it
\* turns into NotFound and PermissionDenied of rest_framework; None for
\* every other exception.
DrfExceptionHandler(exc) ==
    IF exc.cls = "Http404" THEN [status |-> 404, detail |-> "Not found."]
    ELSE IF exc.cls = "PermissionDenied"
    THEN [status |-> 403, detail |-> "You do not have permission to perform this action."]
    ELSE IF exc.cls \in DrfExceptionClasses
    THEN [status |-> DrfStatus(exc.cls), detail |-> "detail"]
    ELSE [status |-> 0, detail |-> ""]

\* getattr(exc, 'error_code', 'UNKNOWN_ERROR')
ErrorCodeOf(exc) == IF exc.cls \in APIExceptionClasses THEN exc.error_code ELSE "UNKNOWN_ERROR"

\* custom_exception_handler: the response and its 'message'.
CustomExceptionHandler(exc, message) ==
    IF DrfExceptionHandler(exc).status # 0
    THEN [response |-> HttpResponse(DrfExceptionHandler(exc).status, ErrorCodeOf(exc), PyNone),
          message |-> DrfExceptionHandler(exc).detail]
    ELSE IF exc.cls \in APIExceptionClasses
    THEN [response |-> HttpResponse(exc.status_code, exc.error_code, PyNone), message |-> message]
    ELSE IF exc.cls = "ValidationError"
    THEN [response |-> HttpResponse(400, "VALIDATION_ERROR", PyNone), message |-> "Validation error"]
    ELSE IF exc.cls = "Http404"
    THEN [response |-> HttpResponse(404, "NOT_FOUND", PyNone), message |-> "Resource not found"]
    ELSE [response |-> HttpResponse(500, "INTERNAL_ERROR", PyNone),
          message |-> "Internal server error"]

\* A view whose method is wrapped in handle_api_errors ends with result
\* inside the wrapper: the value goes into the response, an exception goes
\* on to the exception handler.
WrappedCall(r, result) ==
    /\ req[r].pc \in {"idle", "done"}
    /\ LET out == HandleApiErrors(result)
           q == [ReqIdle EXCEPT !.view = "wrapped", !.inner = result, !.outer = out]
       IN  req' = [req EXCEPT ![r] =
                IF out.raised = NoExc
                THEN [q EXCEPT !.pc = "done", !.response = HttpResponse(200, "", out.value)]
                ELSE [q EXCEPT !.pc = "exception_handler"]]
    /\ UNCHANGED <<redis_client, conn, store, now, last, cl, args, favorites>>

\* A view without the decorator raises: the exception goes to the
\* exception handler as it is.
ViewRaises(r, exc, message) ==
    /\ req[r].pc \in {"idle", "done"}
    /\ req' = [req EXCEPT ![r] =
            [ReqIdle EXCEPT !.view = "plain", !.pc = "exception_handler",
                            !.inner = Raised(exc, message), !.outer = Raised(exc, message)]]
    /\ UNCHANGED <<redis_client, conn, store, now, last, cl, args, favorites>>

\* The framework calls custom_exception_handler with the exception.
ExceptionHandler(r) ==
    /\ req[r].pc = "exception_handler"
    /\ LET h == CustomExceptionHandler(req[r].outer.raised, req[r].outer.message)
       IN  req' = [req EXCEPT ![r] =
                [@ EXCEPT !.pc = "done", !.response = h.response, !.message = h.message]]
    /\ UNCHANGED <<redis_client, conn, store, now, last, cl, args, favorites>>

(***************************************************************************)
(* The specifications.                                                     *)
(***************************************************************************)
Workers == {1}

\* The service is constructed when the module is imported: a failed PING
\* leaves redis_client None.
Init ==
    /\ conn \in BOOLEAN
    /\ redis_client = IF conn THEN "client" ELSE "none"
    /\ store = <<>>
    /\ now = 0
    /\ last = NoCall
    /\ cl = ClIdle
    /\ req = [r \in Workers |-> ReqIdle]
    /\ args = NoArgs
    /\ favorites = {}

\* SpecCache: any caller calls the operations of the service.
CallGetTrending(drop) ==
    \E a \in CacheTrendingArgs : 
        /\ GetTrendingMovies(a[1], a[2], drop)
        /\ args' = ArgsTrending(a[1], a[2])
        /\ UNCHANGED <<cl, req, favorites>>
CallSetTrending(data, drop) ==
    \E a \in CacheTrendingArgs : 
        /\ SetTrendingMovies(data, a[1], a[2], drop)
        /\ args' = ArgsTrending(a[1], a[2])
        /\ UNCHANGED <<cl, req, favorites>>
CallGetRecommendations(drop) ==
    \E a \in CacheRecArgs : 
        /\ GetMovieRecommendations(a[1], a[2], drop)
        /\ args' = ArgsRecommendations(a[1], a[2])
        /\ UNCHANGED <<cl, req, favorites>>
CallSetRecommendations(data, drop) ==
    \E a \in CacheRecArgs : 
        /\ SetMovieRecommendations(a[1], data, a[2], drop)
        /\ args' = ArgsRecommendations(a[1], a[2])
        /\ UNCHANGED <<cl, req, favorites>>
CallGetUserInfo(drop) ==
    \E u \in CacheUserArgs : 
        /\ GetUserInfo(u, drop)
        /\ args' = ArgsUser(u)
        /\ UNCHANGED <<cl, req, favorites>>
CallSetUserInfo(data, drop) ==
    \E u \in CacheUserArgs : 
        /\ SetUserInfo(u, data, drop)
        /\ args' = ArgsUser(u)
        /\ UNCHANGED <<cl, req, favorites>>
CallInvalidateUserCache(drop) ==
    \E u \in CacheUserArgs : 
        /\ InvalidateUserCache(u, drop)
        /\ args' = ArgsUser(u)
        /\ UNCHANGED <<cl, req, favorites>>
CallClearAllCaches ==
    \E done \in 0..Len(ClearPatterns) : 
        /\ ClearAllCaches(done)
        /\ args' = NoArgs
        /\ UNCHANGED <<cl, req, favorites>>
CallGetCacheStats(drop) ==
    \E info \in InfoReplies :
        /\ GetCacheStats(drop, info)
        /\ args' = NoArgs
        /\ UNCHANGED <<cl, req, favorites>>

NextCache ==
    \/ \E drop \in BOOLEAN : CallGetTrending(drop)
    \/ \E data \in CachePayloads, drop \in BOOLEAN : CallSetTrending(data, drop)
    \/ \E drop \in BOOLEAN : CallGetRecommendations(drop)
    \/ \E data \in CachePayloads, drop \in BOOLEAN : CallSetRecommendations(data, drop)
    \/ \E drop \in BOOLEAN : CallGetUserInfo(drop)
    \/ \E data \in CachePayloads, drop \in BOOLEAN : CallSetUserInfo(data, drop)
    \/ \E drop \in BOOLEAN : CallInvalidateUserCache(drop)
    \/ CallClearAllCaches
    \/ \E drop \in BOOLEAN : CallGetCacheStats(drop)
    \/ Disconnect
    \/ Reconnect
    \/ Tick

SpecCache == Init /\ [][NextCache]_vars

\* SpecKeys: the callers of the service use several keys of each category.
KeysTrendingArgs == {<<"day", 1>>, <<"day", 2>>, <<"week", 1>>}
KeysRecArgs      == {<<1, 1>>, <<1, 2>>, <<2, 1>>}
KeysUserArgs     == {1, 2}
KeysPayload      == TmdbPage(1, 2, <<123>>)

KeysGetTrending(a) ==
    /\ GetTrendingMovies(a[1], a[2], FALSE)
    /\ args' = ArgsTrending(a[1], a[2])
    /\ UNCHANGED <<cl, req, favorites>>
KeysSetTrending(a) ==
    /\ SetTrendingMovies(KeysPayload, a[1], a[2], FALSE)
    /\ args' = ArgsTrending(a[1], a[2])
    /\ UNCHANGED <<cl, req, favorites>>
KeysGetRecommendations(a) ==
    /\ GetMovieRecommendations(a[1], a[2], FALSE)
    /\ args' = ArgsRecommendations(a[1], a[2])
    /\ UNCHANGED <<cl, req, favorites>>
KeysSetRecommendations(a) ==
    /\ SetMovieRecommendations(a[1], KeysPayload, a[2], FALSE)
    /\ args' = ArgsRecommendations(a[1], a[2])
    /\ UNCHANGED <<cl, req, favorites>>
KeysGetUserInfo(u) ==
    /\ GetUserInfo(u, FALSE)
    /\ args' = ArgsUser(u)
    /\ UNCHANGED <<cl, req, favorites>>
KeysSetUserInfo(u) ==
    /\ SetUserInfo(u, KeysPayload, FALSE)
    /\ args' = ArgsUser(u)
    /\ UNCHANGED <<cl, req, favorites>>
KeysInvalidateUserCache(u) ==
    /\ InvalidateUserCache(u, FALSE)
    /\ args' = ArgsUser(u)
    /\ UNCHANGED <<cl, req, favorites>>

NextKeys ==
    \/ \E a \in KeysTrendingArgs : KeysGetTrending(a)
    \/ \E a \in KeysTrendingArgs : KeysSetTrending(a)
    \/ \E a \in KeysRecArgs : KeysGetRecommendations(a)
    \/ \E a \in KeysRecArgs : KeysSetRecommendations(a)
    \/ \E u \in KeysUserArgs : KeysGetUserInfo(u)
    \/ \E u \in KeysUserArgs : KeysSetUserInfo(u)
    \/ \E u \in KeysUserArgs : KeysInvalidateUserCache(u)
    \/ Tick

SpecKeys == Init /\ [][NextKeys]_vars

\* SpecTtl: one key of each category, and a clock that stops at the instants
\* around the expiry of an entry.  Redis expires a key lazily: the entry
\* stays in the keyspace and is no longer served.
TtlInstants == {0, 899, 900, 3599, 3600}
Advance(t) ==
    /\ t > now
    /\ now' = t
    /\ UNCHANGED <<redis_client, conn, store, last, cl, req, args, favorites>>
TtlGetTrending == CallGetTrending(FALSE)
TtlSetTrending == CallSetTrending(KeysPayload, FALSE)
TtlGetRecommendations == CallGetRecommendations(FALSE)
TtlSetRecommendations == CallSetRecommendations(KeysPayload, FALSE)
TtlGetUserInfo == CallGetUserInfo(FALSE)
TtlSetUserInfo == CallSetUserInfo(KeysPayload, FALSE)

NextTtl ==
    \/ TtlGetTrending
    \/ TtlSetTrending
    \/ TtlGetRecommendations
    \/ TtlSetRecommendations
    \/ TtlGetUserInfo
    \/ TtlSetUserInfo
    \/ \E t \in TtlInstants : Advance(t)
    \/ Disconnect
    \/ Reconnect

SpecTtl == Init /\ [][NextTtl]_vars

\* SpecReconnect: the server goes away and comes back while the callers keep
\* calling: a get or a set that would change what the callers have seen is
\* eventually made.
NextReconnect ==
    \/ TtlGetTrending
    \/ TtlSetTrending
    \/ TtlGetRecommendations
    \/ TtlSetRecommendations
    \/ TtlGetUserInfo
    \/ TtlSetUserInfo
    \/ Disconnect
    \/ Reconnect

CallersKeepCalling ==
    /\ WF_vars(TtlGetTrending) /\ WF_vars(TtlSetTrending)
    /\ WF_vars(TtlGetRecommendations) /\ WF_vars(TtlSetRecommendations)
    /\ WF_vars(TtlGetUserInfo) /\ WF_vars(TtlSetUserInfo)

SpecReconnect == Init /\ [][NextReconnect]_vars /\ CallersKeepCalling

NextClient ==
    \/ \E w \in ClientWindows, p \in ClientPages : CallTrending(w, p)
    \/ \E m \in ClientMovieIds : CallDetails(m)
    \/ \E q \in ClientQueries, p \in ClientPages : CallSearch(q, p)
    \/ \E m \in ClientMovieIds, p \in ClientPages : CallRecommendations(m, p)
    \/ \E p \in ClientPages : CallPopular(p)
    \/ \E o \in Outcomes : MakeRequest(o)

SpecClient == Init /\ [][NextClient]_vars

Next ==
    \/ \E r \in Workers, w \in ReqWindows, p \in ReqPages :
            ReqStart(r, "trending", w, p, PyNone)
    \/ \E r \in Workers, m \in ReqMovieIds, p \in ReqPages :
            ReqStart(r, "recommendations", PyNone, p, m)
    \/ \E r \in Workers, drop \in BOOLEAN : ReqCacheGet(r, drop)
    \/ \E r \in Workers, o \in ReqOutcomes : ReqFetch(r, o)
    \/ \E r \in Workers, drop \in BOOLEAN : ReqCacheSet(r, drop)
    \/ Disconnect
    \/ Reconnect
    \/ Tick

Spec == Init /\ [][Next]_vars

\* SpecFailOpen: one request of each cached endpoint at a time, while the
\* store comes and goes.
FailOpenUsers == {1}
NextFailOpen ==
    \/ \E r \in Workers : ReqStart(r, "trending", PyStr("day"), PyInt(1), PyNone)
    \/ \E r \in Workers : ReqStart(r, "recommendations", PyNone, PyInt(1), PyInt(1))
    \/ \E r \in Workers, drop \in BOOLEAN : ReqCacheGet(r, drop)
    \/ \E r \in Workers, o \in ReqOutcomes : ReqFetch(r, o)
    \/ \E r \in Workers, drop \in BOOLEAN : ReqCacheSet(r, drop)
    \/ \E r \in Workers, u \in FailOpenUsers : ProfileStart(r, u)
    \/ \E r \in Workers, drop \in BOOLEAN : ProfileCacheGet(r, drop)
    \/ \E r \in Workers : ProfileBuild(r)
    \/ \E r \in Workers, drop \in BOOLEAN : ProfileCacheSet(r, drop)
    \/ Disconnect
    \/ Reconnect
    \/ Tick

SpecFailOpen == Init /\ [][NextFailOpen]_vars

\* The hosting server handles requests concurrently: two workers, and a
\* service that was constructed with the store reachable.
ConcWorkers == {1, 2}
InitConc ==
    /\ conn = TRUE
    /\ redis_client = "client"
    /\ store = <<>>
    /\ now = 0
    /\ last = NoCall
    /\ cl = ClIdle
    /\ req = [r \in ConcWorkers |-> ReqIdle]
    /\ args = NoArgs
    /\ favorites = {}

\* SpecFavorites: profile, add-favorite and remove-favorite requests of one
\* user, on a store that stays connected.
FavoritesUsers  == {1}
FavoritesMovies == {1}
NextFavorites ==
    \/ \E r \in ConcWorkers, u \in FavoritesUsers : ProfileStart(r, u)
    \/ \E r \in ConcWorkers : ProfileCacheGet(r, FALSE)
    \/ \E r \in ConcWorkers : ProfileBuild(r)
    \/ \E r \in ConcWorkers : ProfileCacheSet(r, FALSE)
    \/ \E r \in ConcWorkers, u \in FavoritesUsers, m \in FavoritesMovies : FavoriteAdd(r, u, m)
    \/ \E r \in ConcWorkers : FavoriteSave(r)
    \/ \E r \in ConcWorkers, u \in FavoritesUsers, m \in FavoritesMovies : FavoriteRemove(r, u, m)
    \/ \E r \in ConcWorkers : FavoriteInvalidate(r, FALSE)

SpecFavorites == InitConc /\ [][NextFavorites]_vars

\* The key of the arguments a.
ArgsKey(a) ==
    IF a.category = "trending" THEN TrendingKey(a.window, a.page)
    ELSE IF a.category = "recommendations" THEN RecommendationsKey(a.id, a.page)
    ELSE UserKey(a.id)

\* The upstream keeps to its interface: what it returns for (window, page)
\* or (movie, page) is a page of that window or movie, with that page
\* number, and it changes between two fetches.
UpstreamId(a) ==
    IF a.category = "trending" THEN (IF a.window = "day" THEN 11 ELSE 12) ELSE 20 + a.id
UpstreamPages(a) ==
    {TmdbPage(a.page, 2, <<UpstreamId(a)>>), TmdbPage(a.page, 2, <<UpstreamId(a), 99>>)}
UpstreamOutcomes(a) ==
    {Response(200, b) : b \in UpstreamPages(a)} \cup {Response(404, PyNone)}

\* SpecConc: two workers serve trending and recommendations requests.
ConcArgs == {ArgsTrending("day", 1), ArgsTrending("week", 1), ArgsRecommendations(1, 1)}
ConcFetch(r) ==
    /\ req[r].pc = "fetch"
    /\ \E o \in UpstreamOutcomes(ReqArgs(req[r])) : ReqFetch(r, o)

NextConc ==
    \/ \E r \in ConcWorkers, w \in Windows : ReqStart(r, "trending", PyStr(w), PyInt(1), PyNone)
    \/ \E r \in ConcWorkers : ReqStart(r, "recommendations", PyNone, PyInt(1), PyInt(1))
    \/ \E r \in ConcWorkers : ReqCacheGet(r, FALSE)
    \/ \E r \in ConcWorkers : ConcFetch(r)
    \/ \E r \in ConcWorkers : ReqCacheSet(r, FALSE)

SpecConc == InitConc /\ [][NextConc]_vars

\* The health check writes a key of its own through Django's cache
\* framework (cache.set(test_key, test_value, 30)) and deletes it again.
HEALTH_KEY == ":1:health_check_test"
HealthCheckSet ==
    /\ conn
    /\ store' = Setex(store, now, HEALTH_KEY, 30, Dumps(PyStr("test_value")), PyStr("test_value"))
    /\ UNCHANGED <<redis_client, conn, now, last, cl, req, args, favorites>>
HealthCheckDelete ==
    /\ conn
    /\ Live(store, now, HEALTH_KEY)
    /\ store' = Delete(store, {HEALTH_KEY})
    /\ UNCHANGED <<redis_client, conn, now, last, cl, req, args, favorites>>

\* SpecClear: the callers fill the three namespaces, the health check
\* writes its key, and an administrator clears the caches.
NextClear ==
    \/ \E a \in KeysTrendingArgs : KeysSetTrending(a)
    \/ \E a \in KeysRecArgs : KeysSetRecommendations(a)
    \/ \E u \in KeysUserArgs : KeysSetUserInfo(u)
    \/ CallClearAllCaches
    \/ HealthCheckSet
    \/ HealthCheckDelete
    \/ Disconnect
    \/ Reconnect

SpecClear == Init /\ [][NextClear]_vars

\* SpecEndpoints: one worker serves the five movie endpoints, with valid
\* and invalid parameters, against an upstream that answers, fails or
\* answers with an error status.
EndpointWindows  == {PyStr("day"), PyStr("month")}
EndpointPages    == {PyInt(0), PyInt(1), PyStr("x")}
EndpointMovieIds == {PyInt(0), PyInt(1)}
EndpointQueries  == {PyStr(""), PyStr(" "), PyStr("up")}
InternalTexts == {"text A", "text B"}
EndpointOutcomes ==
    {Timeout, RequestError} \cup {Raises("Exception", text) : text \in InternalTexts} \cup
    {
     Response(200, TmdbPage(1, 2, <<123>>)), Response(200, Undecodable),
     Response(401, PyNone), Response(404, PyNone), Response(429, PyNone),
     Response(503, PyNone)}

NextEndpoints ==
    \/ \E r \in Workers, w \in EndpointWindows, p \in EndpointPages :
            ReqStart(r, "trending", w, p, PyNone)
    \/ \E r \in Workers, m \in EndpointMovieIds, p \in EndpointPages :
            ReqStart(r, "recommendations", PyNone, p, m)
    \/ \E r \in Workers, q \in EndpointQueries, p \in EndpointPages :
            ReqStartUncached(r, "search", p, PyNone, q)
    \/ \E r \in Workers, m \in EndpointMovieIds :
            ReqStartUncached(r, "details", PyNone, m, PyNone)
    \/ \E r \in Workers, p \in EndpointPages :
            ReqStartUncached(r, "popular", p, PyNone, PyNone)
    \/ \E r \in Workers : ReqCacheGet(r, FALSE)
    \/ \E r \in Workers, o \in EndpointOutcomes : ReqFetch(r, o)
    \/ \E r \in Workers : ReqCacheSet(r, FALSE)

SpecEndpoints == Init /\ [][NextEndpoints]_vars

\* SpecErrors: functions under handle_api_errors and views end with the
\* exceptions and values below, and the framework answers.
ErrorMessages == {"Test error", "Not found"}
RaisedExceptions ==
    {Exc("APIException", st, code) : st \in {400, 500}, code \in {"", "CUSTOM_ERROR"}}
    \cup {ExternalAPIExceptionDefault, ExternalAPIException(404, "MOVIE_NOT_FOUND"),
          ValidationAPIException, AuthenticationAPIException, RateLimitAPIException}
    \cup {Exc(cls, 0, "") : cls \in ValueErrorClasses \cup DrfExceptionClasses
              \cup {"KeyError", "TypeError", "AttributeError", "Http404",
                    "PermissionDenied", "ValidationError"}}
ReturnedValues == {PyNone, EmptyDict, TmdbPage(1, 2, <<123>>)}

NextErrors ==
    \/ \E r \in Workers, e \in RaisedExceptions, msg \in ErrorMessages :
            WrappedCall(r, Raised(e, msg))
    \/ \E r \in Workers, v \in ReturnedValues : WrappedCall(r, Returned(v))
    \/ \E r \in Workers, e \in RaisedExceptions, msg \in ErrorMessages :
            ViewRaises(r, e, msg)
    \/ \E r \in Workers : ExceptionHandler(r)

SpecErrors == Init /\ [][NextErrors]_vars

\* SpecOutage: one worker serves the profile and favorites requests of one
\* user, one request after the other, while the store comes and goes.
OutageMovies == {1, 2}
NextOutage ==
    \/ \E r \in Workers, u \in FavoritesUsers : ProfileStart(r, u)
    \/ \E r \in Workers, drop \in BOOLEAN : ProfileCacheGet(r, drop)
    \/ \E r \in Workers : ProfileBuild(r)
    \/ \E r \in Workers, drop \in BOOLEAN : ProfileCacheSet(r, drop)
    \/ \E r \in Workers, u \in FavoritesUsers, m \in OutageMovies : FavoriteAdd(r, u, m)
    \/ \E r \in Workers : FavoriteSave(r)
    \/ \E r \in Workers, u \in FavoritesUsers, m \in OutageMovies : FavoriteRemove(r, u, m)
    \/ \E r \in Workers, drop \in BOOLEAN : FavoriteInvalidate(r, drop)
    \/ Disconnect
    \/ Reconnect

SpecOutage == Init /\ [][NextOutage]_vars

(***************************************************************************)
(* The claims about the cache service, under SpecCache.                    *)
(***************************************************************************)
GetOps == {"get_trending_movies", "get_movie_recommendations", "get_user_info"}
SetOps == {"set_trending_movies", "set_movie_recommendations", "set_user_info"}
BoolOps == SetOps \cup {"invalidate_user_cache", "clear_all_caches"}

\* The last call was a get that ran to its end on a connected store and
\* found a live entry: the entry's data is what the most recent set on that
\* key was given, and its TTL has not elapsed.
GotLiveEntry ==
    /\ last.op \in GetOps
    /\ last.probe /\ ~last.dropped
    /\ Live(store, now, last.key)

\* C1 as stated: for every category and every payload json.dumps accepts,
\* a get after a set with the same parameters, on a connected store and
\* within the TTL, returns a value equal to the payload that was set.
C1_RoundTripSerializable ==
    GotLiveEntry => last.ret = store[last.key].data

\* C1 amended: the same, for every payload built only from None, booleans,
\* integers, strings, lists and dicts with string keys.
C1_RoundTripNative ==
    (GotLiveEntry /\ JsonNative(store[last.key].data)) => last.ret = store[last.key].data

C1_Witness ==
    /\ GotLiveEntry
    /\ last.op = "get_user_info"
    /\ store[last.key].data = TmdbPage(1, 2, <<123>>)
    /\ last.ret = TmdbPage(1, 2, <<123>>)

\* C2: a call made while the store is disconnected (the client was never
\* built, or the server does not answer) returns absent from a get and
\* failure from a set, an invalidate and a clear, raises nothing and leaves
\* the stored entries as they were.
C2_FallbackWhenDisconnected ==
    (last.op # "none" /\ ~last.up) =>
        /\ last.raised = "none"
        /\ ~last.changed
        /\ last.cmds = <<>>
        /\ last.op \in GetOps => last.ret = PyNone
        /\ last.op \in BoolOps => last.ret = PyBool(FALSE)

C2_Witness ==
    /\ last.op = "set_user_info"
    /\ ~last.up
    /\ redis_client = "client"
    /\ last.data = TmdbPage(1, 2, <<123>>)
    /\ last.ret = PyBool(FALSE)
    /\ DOMAIN store # {}

\* C3: every operation of the service returns a value and raises nothing,
\* whatever the state of the store and whatever payload a set is given.
C3_NeverRaises ==
    last.raised = "none"

\* C4: an entry holding an empty or falsy payload is a hit: get returns a
\* value other than None, and the handler's test on it serves it from the
\* cache.
C4_FalsyPayloadIsHit ==
    (GotLiveEntry /\ ~Truthy(store[last.key].data)) =>
        (last.ret # PyNone /\ ServesFromCache(last.ret))

\* The expiry the policy gives a category, in seconds.
PolicyTtl(op) == IF op \in {"get_user_info", "set_user_info"} THEN 900 ELSE 3600

\* C15: every step that writes an entry is a set of the service on that
\* key, and the entry it writes expires exactly 3600 seconds after the
\* write for trending and recommendations and exactly 900 seconds after it
\* for a user profile; every entry in the store has such an expiry.
C15_TtlPolicy ==
    [][\A k \in DOMAIN store' :
          (now' = now /\ Entry(store', k) # Entry(store, k)) =>
              /\ last'.op \in SetOps
              /\ last'.key = k
              /\ store'[k].at = now
              /\ store'[k].exp = now + PolicyTtl(last'.op)]_vars

\* A user profile written at 3600 expires at 4500, beside a trending entry
\* written at the same time that expires at 7200.
C15_Witness ==
    /\ last.op = "set_user_info"
    /\ last.ret = PyBool(TRUE)
    /\ now = 3600
    /\ last.key \in DOMAIN store
    /\ store[last.key].exp = 4500
    /\ Live(store, now, "trending_movies:day:page:1")
    /\ store["trending_movies:day:page:1"].exp = 7200

\* C19: when the first PING failed the constructor raised nothing and left
\* the service without a client; from then on, whether or not the server
\* answers, every operation issues no store command, raises nothing and
\* returns absent from a get, failure from a set, an invalidate and a
\* clear, and the status "disconnected" from the stats.
C19_DisabledAfterFailedConstruction ==
    (redis_client = "none" /\ last.op # "none") =>
        /\ last.raised = "none"
        /\ last.cmds = <<>>
        /\ ~last.changed
        /\ store = <<>>
        /\ last.op \in GetOps => last.ret = PyNone
        /\ last.op \in BoolOps => last.ret = PyBool(FALSE)
        /\ last.op = "get_cache_stats" =>
                last.ret = StrDict([status |-> PyStr("disconnected")])

\* The server answers again, and a set on the disabled service still fails.
C19_Witness ==
    /\ redis_client = "none"
    /\ conn
    /\ last.op = "set_trending_movies"
    /\ last.data = TmdbPage(1, 2, <<123>>)
    /\ last.ret = PyBool(FALSE)
    /\ last.cmds = <<>>

(***************************************************************************)
(* The claim about reconnection, under SpecReconnect.                      *)
(***************************************************************************)
\* A get returned an entry.
GetHit == last.op \in GetOps /\ last.ret # PyNone

\* C20 as stated: once the store stays reachable, after whatever outage,
\* one at the construction of the service included, sets succeed and gets
\* hit again and again.
C20_ReconnectAfterAnyOutage ==
    <>[]conn => []<>GetHit

\* C20 amended: the same for a service that was constructed while the
\* store was reachable; a service whose construction found the store
\* unreachable stays disabled (C19).
C20_ReconnectAfterOutage ==
    (redis_client = "client" /\ <>[]conn) => []<>GetHit

\* The store is reachable again after an outage in which a set failed.
C20_Witness ==
    /\ redis_client = "client"
    /\ conn
    /\ last.op = "set_user_info"
    /\ ~last.up
    /\ last.ret = PyBool(FALSE)
    /\ Live(store, now, "trending_movies:day:page:1")

(***************************************************************************)
(* The claim about expiry, under SpecTtl.                                  *)
(***************************************************************************)
\* C16: a get on a connected store, of a key last written at time t, returns
\* the payload written at every time strictly before t plus the TTL of the
\* category, and returns absent at every time from then on.
C16_TtlEnforcement ==
    [][(last' # last /\ last'.op \in GetOps /\ last'.up /\ ~last'.dropped
            /\ last'.key \in DOMAIN store) =>
          LET e == store[last'.key] IN
          /\ now < e.at + PolicyTtl(last'.op) => last'.ret = e.data
          /\ now >= e.at + PolicyTtl(last'.op) => last'.ret = PyNone]_vars

\* At 900 a get of the user profile written at 0 returned absent, while the
\* trending entry written at 0 is still served.
C16_Witness ==
    /\ last.op = "get_user_info"
    /\ last.up
    /\ last.ret = PyNone
    /\ now = 900
    /\ last.key \in DOMAIN store
    /\ store[last.key].at = 0
    /\ Live(store, now, "trending_movies:day:page:1")

\* At 899 the user profile written at 0 was still served.
C16_WitnessServed ==
    /\ last.op = "get_user_info"
    /\ last.ret = KeysPayload
    /\ now = 899
    /\ store[last.key].at = 0

(***************************************************************************)
(* The claims about the keys of the cache service, under SpecKeys.         *)
(***************************************************************************)
\* Every key the callers of SpecKeys use.
AllKeys ==
    {TrendingKey(a[1], a[2]) : a \in KeysTrendingArgs}
    \cup {RecommendationsKey(a[1], a[2]) : a \in KeysRecArgs}
    \cup {UserKey(u) : u \in KeysUserArgs}

\* C13: a step that is a set or an invalidate changes only the entry of
\* the key it was called for: every other key (another page of the window
\* or movie, the other window, another movie, another user, another
\* category) keeps its value and its expiry, and a get of it returns what
\* it returned before.
C13_KeyIndependence ==
    [][(now' = now /\ last'.op \in SetOps \cup {"invalidate_user_cache"}) =>
          \A k \in (AllKeys \cup DOMAIN store \cup DOMAIN store') \ {last'.key} :
              /\ Entry(store', k) = Entry(store, k)
              /\ Lookup(store', now', k) = Lookup(store, now, k)]_vars

\* After set_trending_movies of (day, 1), page 2 of day, page 1 of week, a
\* recommendations entry and a user entry are all still there.
C13_Witness ==
    /\ last.op = "set_trending_movies"
    /\ last.key = "trending_movies:day:page:1"
    /\ last.ret = PyBool(TRUE)
    /\ \A k \in {"trending_movies:day:page:1", "trending_movies:day:page:2",
                  "trending_movies:week:page:1", "recommended_movies:1:page:2",
                  "user:2"} : Live(store, now, k)
    /\ ~Live(store, now, "user:1")

\* C14: the key of a call depends on its category and arguments only: two
\* calls of the service, with whatever store state and history between
\* them, whether gets, sets or invalidates, use the same key if they have
\* the same category and arguments, and different keys otherwise.
C14_KeyDeterministicInjective ==
    [][(last.op # "none" /\ last'.op # "none") =>
          ((args' = args) <=> (last'.key = last.key))]_vars

\* A get of trending (week, 1) used the key of the set of (week, 1), with
\* other entries in the store.
C14_Witness ==
    /\ last.op = "get_trending_movies"
    /\ args = ArgsTrending("week", 1)
    /\ last.key = "trending_movies:week:page:1"
    /\ last.ret = KeysPayload
    /\ Live(store, now, "trending_movies:day:page:1")
    /\ Live(store, now, "recommended_movies:1:page:1")

(***************************************************************************)
(* The claims about the external API client, under SpecClient.             *)
(***************************************************************************)
Retryable == {"Timeout", "ConnectionError"}

\* All attempts of the call so far failed with a timeout or a connection error.
AllRetryable(outs) == \A i \in 1..Len(outs) : outs[i].k \in Retryable

\* The last attempt of the finished call received the HTTP status st.
EndedWithStatus(st) ==
    /\ cl.pc = "done"
    /\ Len(cl.outcomes) > 0
    /\ cl.outcomes[Len(cl.outcomes)].k = "response"
    /\ cl.outcomes[Len(cl.outcomes)].status = st

\* C5: the exception that leaves a public fetch operation has the kind of
\* the upstream status: 401 and 403 an AuthenticationAPIException, 429 a
\* RateLimitAPIException, 404 an exception with status 404 and code
\* MOVIE_NOT_FOUND, any other status but 200 an ExternalAPIException.
C5_ErrorKindPreserved ==
    /\ (EndedWithStatus(401) \/ EndedWithStatus(403)) => cl.raised = AuthenticationAPIException
    /\ EndedWithStatus(429) => cl.raised = RateLimitAPIException
    /\ EndedWithStatus(404) =>
            (cl.raised.status_code = 404 /\ cl.raised.error_code = "MOVIE_NOT_FOUND")
    /\ \A st \in Statuses \ {200, 401, 403, 404, 429} :
            EndedWithStatus(st) => cl.raised.cls = "ExternalAPIException"

\* C6: only a timeout or a connection failure is followed by another
\* attempt: an attempt that received an HTTP response, whatever its status,
\* is the last of its fetch, and a fetch whose first attempt received a 429
\* made exactly one attempt.
C6_RetryOnlyOnTransportFailure ==
    /\ cl.attempts = Len(cl.outcomes)
    /\ \A i \in 1..Len(cl.outcomes) :
          /\ i < Len(cl.outcomes) => cl.outcomes[i].k \in Retryable
          /\ cl.outcomes[i].k \notin Retryable => cl.pc = "done"
    /\ (Len(cl.outcomes) > 0 /\ cl.outcomes[1] = Response(429, PyNone)) =>
            (cl.attempts = 1 /\ cl.pc = "done" /\ cl.raised # NoExc)

C6_Witness ==
    /\ cl.pc = "done"
    /\ cl.outcomes = <<Response(429, PyNone)>>
    /\ cl.attempts = 1

\* C7: when the first k attempts (0 <= k <= 3) fail with a timeout or a
\* connection error the fetch goes on, and when attempt k + 1 then receives
\* a 200 whose body decodes the fetch returns that body unchanged, having
\* made exactly k + 1 attempts.
C7_SuccessAfterRetries ==
    /\ (cl.op # "none" /\ cl.raised # ValueError /\ AllRetryable(cl.outcomes)
            /\ Len(cl.outcomes) <= 3) => cl.pc = "request"
    /\ \A b \in Bodies \ {Undecodable} :
          (Len(cl.outcomes) > 0 /\ cl.outcomes[Len(cl.outcomes)] = Response(200, b)) =>
              /\ cl.pc = "done"
              /\ cl.raised = NoExc
              /\ cl.value = b
              /\ cl.attempts = Len(cl.outcomes)
              /\ Len(cl.outcomes) - 1 \in 0..3
              /\ AllRetryable(SubSeq(cl.outcomes, 1, Len(cl.outcomes) - 1))

C7_Witness ==
    /\ cl.pc = "done"
    /\ cl.outcomes = <<Timeout, Timeout, Response(200, TmdbPage(1, 2, <<123>>))>>
    /\ cl.value = TmdbPage(1, 2, <<123>>)
    /\ cl.attempts = 3

\* C8: a fetch makes at most 1 + 3 = 4 HTTP attempts, each step of a fetch
\* in progress is one more attempt, so it ends after at most four steps; a
\* fetch whose four attempts all failed with timeouts or connection errors,
\* in any mix, has raised an ExternalAPIException and returned nothing.
C8_BoundedAttempts ==
    /\ cl.attempts <= 4
    /\ cl.attempts = Len(cl.outcomes)
    /\ cl.pc = "request" => cl.attempts < 4
    /\ Len(cl.sleeps) <= 3
    /\ (Len(cl.outcomes) = 4 /\ AllRetryable(cl.outcomes)) =>
          /\ cl.pc = "done"
          /\ cl.raised.cls = "ExternalAPIException"
          /\ cl.value = PyNone

C8_Witness ==
    /\ cl.pc = "done"
    /\ cl.outcomes = <<Timeout, ConnectionError, ConnectionError, Timeout>>
    /\ cl.raised.cls = "ExternalAPIException"

\* The inputs the claim calls invalid.  A movie id is taken as a positive
\* integer when it is one, or is the decimal text of one.
ZeroStrs == {"0", "00"}
PositiveInteger(m) ==
    \/ m.t = "int" /\ m.v > 0
    \/ m.t = "str" /\ IsDigit(m.v) /\ m.v \notin ZeroStrs
ClaimedInvalid(c) ==
    \/ c.op = "get_trending_movies" /\ c.time_window \notin {PyStr("day"), PyStr("week")}
    \/ c.op \in {"get_trending_movies", "search_movies", "get_movie_recommendations",
                 "get_popular_movies"} /\ c.page.v < 1
    \/ c.op \in {"get_movie_details", "get_movie_recommendations"}
            /\ ~PositiveInteger(c.movie_id)
    \/ c.op = "search_movies" /\ (c.query \in {PyNone, PyStr("")} \/ IsBlank(c.query.v))

\* C9: a fetch called with an invalid input (a time window other than day
\* and week, a page below 1, a movie id that is not a positive integer, an
\* empty or blank query) raises the validation error and makes no HTTP
\* attempt.
C9_ValidationBeforeNetwork ==
    (cl.op # "none" /\ ClaimedInvalid(cl)) =>
        (cl.pc = "done" /\ cl.raised = ValueError /\ cl.attempts = 0)

(***************************************************************************)
(* The claim about store failures during a request, under SpecFailOpen.    *)
(***************************************************************************)
\* The store failed to answer the get or the set of request q.
StoreFailedDuring(q) ==
    \E i \in 1..Len(q.trace) : q.trace[i].e \in {"get", "set"} /\ ~q.trace[i].up

C11_WitnessProfile ==
    \E r \in DOMAIN req :
        /\ req[r].pc = "done"
        /\ req[r].view = "profile"
        /\ Len(req[r].trace) = 2
        /\ req[r].trace[1].up
        /\ ~req[r].trace[2].up
        /\ req[r].response.status = 200

(***************************************************************************)
(* The claim about profile invalidation, under SpecFavorites.              *)
(***************************************************************************)
\* Request q is an add-favorite or remove-favorite that completed with
\* success.
FavoriteCompleted(q) ==
    /\ q.view \in {"add_favorite", "remove_favorite"}
    /\ q.pc = "done"
    /\ q.response.status \in {200, 201}

\* No request of user u is between its change of the favorites and its
\* invalidate.
NoFavoriteInProgress(u) ==
    \A r \in DOMAIN req :
        ~(req[r].pc \in {"favorite_save", "favorite_invalidate"} /\ req[r].user_id = u)

\* C17: a completed add-favorite or remove-favorite request of user u has
\* called invalidate_user_cache(u); and once the favorite requests of u
\* have completed, get_user_info(u) returns absent, or the profile that a
\* profile request built from the favorites as they are since.
C17_ProfileInvalidation ==
    \A r \in DOMAIN req :
        LET q == req[r] IN
        FavoriteCompleted(q) =>
            /\ Len(q.trace) = 1
            /\ q.trace[1].e = "invalidate"
            /\ q.trace[1].key = UserKey(q.user_id)
            /\ q.trace[1].up
            /\ NoFavoriteInProgress(q.user_id) =>
                  Lookup(store, now, UserKey(q.user_id))
                      \in {PyNone, UserInfo(q.user_id, favorites)}

(***************************************************************************)
(* The claims about the request flow, under Spec.                          *)
(***************************************************************************)
Events(tr) == [i \in 1..Len(tr) |-> tr[i].e]

\* The request of worker r got a value from the cache (a hit) or got None.
Hit(r)  == Len(req[r].trace) > 0 /\ req[r].cached # PyNone
Miss(r) == Len(req[r].trace) > 0 /\ req[r].cached = PyNone
\* Its fetch has ended, returning a payload or raising.
FetchReturned(r) == req[r].c.pc = "done" /\ req[r].c.raised = NoExc
FetchRaised(r)   == req[r].c.pc = "done" /\ req[r].c.raised # NoExc

\* C10 as stated: a request that missed makes exactly one fetch and then
\* one set, with the key of the get and the fetched payload, and answers
\* with that payload.
C10_MissFetchesAndSets ==
    \A r \in DOMAIN req :
        (Miss(r) /\ req[r].pc = "done") =>
            /\ Events(req[r].trace) = <<"get", "fetch", "set">>
            /\ req[r].trace[3].key = req[r].trace[1].key
            /\ req[r].trace[3].data = req[r].c.value
            /\ req[r].response = HttpResponse(200, "", req[r].c.value)

\* C10 amended: in every request of the trending and recommendations
\* endpoints the cache get comes before any fetch; a request that hit makes
\* no fetch and no cache write and answers with the cached payload; a
\* request that missed makes exactly one fetch; when that fetch returns a
\* payload the request then makes one set, with the key of the get and the
\* fetched payload, and answers with that payload; when that fetch raises
\* the request makes no set and answers with an error.
C10_RequestFlow ==
    \A r \in DOMAIN req :
        LET q == req[r]  tr == q.trace IN
        /\ Events(tr) \in {<<>>, <<"get">>, <<"get", "fetch">>, <<"get", "fetch", "set">>}
        /\ Len(tr) > 0 => tr[1].key = ReqKey(q)
        /\ Hit(r) =>
              /\ Events(tr) = <<"get">>
              /\ q.pc = "done"
              /\ q.c = ClIdle
              /\ q.response = HttpResponse(200, "", q.cached)
        /\ Miss(r) => Len(tr) >= 2
        /\ (Miss(r) /\ q.pc = "done" /\ FetchReturned(r)) =>
              /\ Events(tr) = <<"get", "fetch", "set">>
              /\ tr[3].key = tr[1].key
              /\ tr[3].data = q.c.value
              /\ q.c.outcomes[Len(q.c.outcomes)] = Response(200, q.c.value)
              /\ q.response = HttpResponse(200, "", q.c.value)
        /\ (Miss(r) /\ FetchReturned(r) /\ q.pc # "done") =>
              (q.pc = "set" /\ Events(tr) = <<"get", "fetch">>)
        /\ (Miss(r) /\ FetchRaised(r)) =>
              (q.pc = "done" /\ Events(tr) = <<"get", "fetch">> /\ q.response.status # 200)

\* A request that missed, fetched after one timeout, wrote the entry and
\* answered with the payload.
C10_Witness ==
    \E r \in DOMAIN req :
        /\ req[r].pc = "done"
        /\ Miss(r)
        /\ Events(req[r].trace) = <<"get", "fetch", "set">>
        /\ req[r].c.attempts = 2
        /\ Live(store, now, ReqKey(req[r]))
        /\ store[ReqKey(req[r])].data = req[r].response.payload
        /\ req[r].response.status = 200

(***************************************************************************)
(* The claims about concurrent requests, under SpecConc.                   *)
(***************************************************************************)
\* C12: every entry of the store is under the key of a (window, page) or
\* (movie, page), and is a payload the upstream returned with status 200
\* for exactly that window or movie and page; a request whose fetch raised
\* has made no cache set, and a request that made one wrote the payload its
\* own fetch returned, under its own key.
C12_CacheIntegrity ==
    /\ DOMAIN store \subseteq {ArgsKey(a) : a \in ConcArgs}
    /\ \A a \in ConcArgs :
          ArgsKey(a) \in DOMAIN store =>
              /\ store[ArgsKey(a)].data \in UpstreamPages(a)
              /\ store[ArgsKey(a)].val = Dumps(store[ArgsKey(a)].data)
              /\ Lookup(store, now, ArgsKey(a)) \in UpstreamPages(a)
    /\ \A r \in DOMAIN req :
          LET q == req[r] IN
          /\ (q.c.pc = "done" /\ q.c.raised # NoExc) =>
                (q.pc = "done" /\ \A i \in 1..Len(q.trace) : q.trace[i].e # "set")
          /\ \A i \in 1..Len(q.trace) :
                q.trace[i].e = "set" =>
                    /\ q.c.outcomes[Len(q.c.outcomes)] = Response(200, q.trace[i].data)
                    /\ q.trace[i].key = ArgsKey(ReqArgs(q))
                    /\ q.trace[i].data \in UpstreamPages(ReqArgs(q))

\* Entries for day and for week, each a page of its own window, written
\* by the two workers, and then a request whose fetch raised.
C12_Witness ==
    /\ Live(store, now, "trending_movies:day:page:1")
    /\ Live(store, now, "trending_movies:week:page:1")
    /\ store["trending_movies:day:page:1"].data = TmdbPage(1, 2, <<11>>)
    /\ store["trending_movies:week:page:1"].data = TmdbPage(1, 2, <<12, 99>>)
    /\ req[1].pc = "done" /\ req[1].view = "recommendations"
    /\ req[1].c.raised # NoExc
    /\ "recommended_movies:1:page:1" \notin DOMAIN store

\* Both workers have finished a request for the same key that missed.
BothMissed ==
    /\ \A r \in DOMAIN req : req[r].pc = "done" /\ Miss(r) /\ FetchReturned(r)
    /\ \A r1, r2 \in DOMAIN req : ReqArgs(req[r1]) = ReqArgs(req[r2])

ClearArgs ==
    {ArgsTrending(a[1], a[2]) : a \in KeysTrendingArgs}
    \cup {ArgsRecommendations(a[1], a[2]) : a \in KeysRecArgs}
    \cup {ArgsUser(u) : u \in KeysUserArgs}
\* A step that is a call of clear_all_caches.
ClearStep == last'.op = "clear_all_caches" /\ CallClearAllCaches

\* C21: a call of clear_all_caches that returns True leaves no entry under
\* a trending, recommendations or user key (a get of any of them returns
\* None afterwards), and leaves every other key as it was.
C21_ClearAllCaches ==
    [][(ClearStep /\ last'.ret = PyBool(TRUE)) =>
          /\ \A a \in ClearArgs :
                /\ ArgsKey(a) \notin DOMAIN store'
                /\ Lookup(store', now', ArgsKey(a)) = PyNone
          /\ \A k \in (DOMAIN store \cup DOMAIN store') \ {ArgsKey(a) : a \in ClearArgs} :
                Entry(store', k) = Entry(store, k)]_vars

\* A clear that returned True has just emptied the three namespaces and
\* the key of the health check is still there.
C21_Witness ==
    /\ last.op = "clear_all_caches" /\ last.ret = PyBool(TRUE) /\ last.changed
    /\ Len(last.cmds) = 3
    /\ DOMAIN store = {HEALTH_KEY}

\* A step that is a call of get_cache_stats, and a field of what it returned.
StatsStep == last'.op = "get_cache_stats" /\ \E drop \in BOOLEAN : CallGetCacheStats(drop)
StatsField(call, field) == call.ret.v[PyStr(field)]
StatsCounters ==
    {"used_memory", "connected_clients", "total_commands_processed",
     "keyspace_hits", "keyspace_misses", "total_keys"}

\* C22: get_cache_stats never raises: it returns {"status": "disconnected"}
\* when the client is missing or the store does not answer the probe, a
\* dict with status "error" when the store fails after the probe, and
\* otherwise a dict with status "connected", the number of keys of the
\* store and the counters.
C22_CacheStats ==
    [][StatsStep =>
          /\ last'.raised = "none"
          /\ last'.ret.t = "dict"
          /\ (redis_client = "none" \/ ~conn) =>
                last'.ret = StrDict([status |-> PyStr("disconnected")])
          /\ (redis_client # "none" /\ conn /\ last'.dropped) =>
                StatsField(last', "status") = PyStr("error")
          /\ (redis_client # "none" /\ conn /\ ~last'.dropped) =>
                /\ StatsField(last', "status") = PyStr("connected")
                /\ {k.v : k \in DOMAIN last'.ret.v} = StatsCounters \cup {"status"}
                /\ StatsField(last', "total_keys") =
                      PyInt(Cardinality({k \in DOMAIN store : now < store[k].exp}))
                /\ \A f \in StatsCounters : StatsField(last', f).t \in {"int", "str"}]_vars

\* The store failed after the probe: status "error"; the store answered
\* with three keys in it; the store was away at the probe.
C22_Witness ==
    /\ last.op = "get_cache_stats" /\ last.probe /\ last.dropped
    /\ StatsField(last, "status") = PyStr("error")
C22_WitnessConnected ==
    /\ last.op = "get_cache_stats" /\ last.probe /\ ~last.dropped
    /\ StatsField(last, "total_keys") = PyInt(3)
    /\ StatsField(last, "keyspace_hits") = PyInt(0)
C22_WitnessDisconnected ==
    /\ last.op = "get_cache_stats" /\ redis_client = "client" /\ ~last.probe
    /\ last.ret = StrDict([status |-> PyStr("disconnected")])

(***************************************************************************)
(* The claims about the responses of the movie endpoints, under            *)
(* SpecEndpoints.                                                          *)
(***************************************************************************)
\* A request with an invalid parameter: a time_window outside {day, week},
\* a page below 1, an empty or missing query, an invalid movie id.
InvalidParameter(q) ==
    \/ q.view = "trending" /\ TimeWindowInvalid(q.time_window)
    \/ q.view \in {"recommendations", "details"} /\ MovieIdInvalid(q.movie_id)
    \/ q.view = "search" /\ HandlerQueryInvalid(q.query)
    \/ q.view \in {"trending", "recommendations", "search", "popular"}
          /\ IntOk(q.page) /\ PageInvalid(q.page)

\* C23: a request to one of the five movie endpoints with an invalid
\* parameter is answered with 400 and VALIDATION_ERROR, and makes no cache
\* lookup and no upstream call.
C23_InvalidParameterIs400 ==
    \A r \in DOMAIN req :
        (req[r].pc = "done" /\ req[r].view \in {"trending", "recommendations", "search",
                                                "details", "popular"}
            /\ InvalidParameter(req[r])) =>
            /\ req[r].response = HttpResponse(400, "VALIDATION_ERROR", PyNone)
            /\ req[r].trace = <<>>
            /\ req[r].c.attempts = 0

\* The five movie endpoints, and statuses and codes an ExternalAPIException
\* can carry.
MovieViews == {"trending", "recommendations", "search", "details", "popular"}
ExternalStatuses == {404, 429, 502, 503}
ExternalCodes == {"EXTERNAL_API_ERROR", "MOVIE_NOT_FOUND"}

\* C24: when the client raises an ExternalAPIException with status s and
\* error code c during a movie request that went to the upstream, the
\* response has status s and code c (502 and EXTERNAL_API_ERROR by default).
C24_ExternalErrorPassedOn ==
    /\ \A r \in DOMAIN req :
          (req[r].pc = "done" /\ req[r].view \in MovieViews /\ req[r].c.pc = "done"
              /\ req[r].c.raised.cls = "ExternalAPIException") =>
              /\ req[r].response.status = req[r].c.raised.status_code
              /\ req[r].response.code = req[r].c.raised.error_code
    /\ \A view \in MovieViews, st \in ExternalStatuses, code \in ExternalCodes :
          HandlerError(view, ExternalAPIException(st, code)) = HttpResponse(st, code, PyNone)
    /\ ExternalAPIExceptionDefault = ExternalAPIException(502, "EXTERNAL_API_ERROR")

\* A trending request missed the cache, its fetch ended in the default
\* ExternalAPIException, and the response is 502 EXTERNAL_API_ERROR.
C24_Witness ==
    /\ req[1].pc = "done" /\ req[1].view = "trending"
    /\ Events(req[1].trace) = <<"get", "fetch">>
    /\ req[1].c.raised = ExternalAPIExceptionDefault
    /\ req[1].response = HttpResponse(502, "EXTERNAL_API_ERROR", PyNone)

\* C25: when the upstream answers 404 to the fetch of a movie-details or
\* recommendations request, the response is 404 with code MOVIE_NOT_FOUND.
C25_NotFoundEndToEnd ==
    \A r \in DOMAIN req :
        (req[r].pc = "done" /\ req[r].view \in {"details", "recommendations"}
            /\ req[r].c.pc = "done" /\ req[r].c.attempts > 0
            /\ req[r].c.outcomes[Len(req[r].c.outcomes)].status = 404) =>
            req[r].response = HttpResponse(404, "MOVIE_NOT_FOUND", PyNone)

\* The request ended on an exception that is neither a validation error
\* nor an upstream status error: one that session.get() raised and that is
\* not an exception of the requests library.
UnexpectedInternal(q) ==
    /\ q.pc = "done" /\ q.view \in MovieViews
    /\ q.c.pc = "done" /\ q.c.attempts > 0
    /\ q.c.outcomes[Len(q.c.outcomes)].k = "Exception"

\* C26: the text of an unexpected internal exception is not in the
\* response: whatever the text, the response is the generic internal
\* error, status 500, code INTERNAL_ERROR and the fixed message.
C26_NoInternalText ==
    \A r \in DOMAIN req :
        UnexpectedInternal(req[r]) =>
            /\ req[r].response = HttpResponse(500, "INTERNAL_ERROR", PyNone)
            /\ req[r].message = "An unexpected error occurred"

(***************************************************************************)
(* The claims about error handling around a view, under SpecErrors.        *)
(***************************************************************************)
\* C27: handle_api_errors lets only APIException kinds out: an APIException
\* raised inside leaves it unchanged, a ValueError leaves it as a
\* ValidationAPIException with the same message, any other exception as an
\* APIException with status 500 and the fixed message; a value returned
\* inside is returned unchanged.
C27_HandleApiErrors ==
    \A r \in DOMAIN req :
        LET q == req[r] IN
        q.view = "wrapped" =>
            /\ q.outer.raised # NoExc => q.outer.raised.cls \in APIExceptionClasses
            /\ (q.inner.raised.cls \in APIExceptionClasses) => q.outer = q.inner
            /\ (q.inner.raised.cls \in ValueErrorClasses) =>
                  /\ q.outer.raised = Exc("ValidationAPIException", 400, "VALIDATION_ERROR")
                  /\ q.outer.message = q.inner.message
            /\ (q.inner.raised # NoExc
                   /\ q.inner.raised.cls \notin APIExceptionClasses \cup ValueErrorClasses) =>
                  /\ q.outer.raised.cls = "APIException"
                  /\ q.outer.raised.status_code = 500
                  /\ q.outer.message = "An unexpected error occurred"
            /\ q.inner.raised = NoExc => q.outer = q.inner

\* A ValueError("Test error") raised inside left the wrapper as
\* ValidationAPIException("Test error").
C27_Witness ==
    /\ req[1].view = "wrapped"
    /\ req[1].inner = Raised(ValueError, "Test error")
    /\ req[1].outer = Raised(ValidationAPIException, "Test error")
    /\ req[1].pc = "done"

\* The exception the exception handler was called with.
Handled(q) == q.pc = "done" /\ q.view \in {"wrapped", "plain"} /\ q.outer.raised # NoExc

\* C28: custom_exception_handler returns a response for every exception:
\* for an APIException its own status_code and error_code, for an Http404
\* 404 with code NOT_FOUND, and for any other unexpected exception 500
\* with code INTERNAL_ERROR.
C28_ExceptionHandler ==
    \A r \in DOMAIN req :
        LET q == req[r] IN
        Handled(q) =>
            /\ q.response # NoResponse
            /\ (q.outer.raised.cls \in APIExceptionClasses) =>
                  q.response = HttpResponse(q.outer.raised.status_code,
                                            q.outer.raised.error_code, PyNone)
            /\ (q.outer.raised.cls = "Http404") =>
                  q.response = HttpResponse(404, "NOT_FOUND", PyNone)
            /\ (q.outer.raised.cls \in ValueErrorClasses \cup {"KeyError", "TypeError",
                                                               "AttributeError"}) =>
                  q.response = HttpResponse(500, "INTERNAL_ERROR", PyNone)

(***************************************************************************)
(* The claims about the cached profile and the favorites.                  *)
(***************************************************************************)
\* Every request has completed.
AllCompleted == \A r \in DOMAIN req : req[r].pc \in {"idle", "done"}

\* C29: under any interleaving of profile, add-favorite and remove-favorite
\* requests of user u on a connected store, once all requests have
\* completed the cached profile of u, if there is one, has the
\* favorites_count of u's FavoriteMovie rows.
C29_CachedCountIsActual ==
    \A u \in FavoritesUsers :
        (AllCompleted /\ Lookup(store, now, UserKey(u)) # PyNone) =>
            Lookup(store, now, UserKey(u)).v[PyStr("favorites_count")]
                = PyInt(Cardinality({f \in favorites : f[1] = u}))

\* The favorites_count in the response of a profile request.
ReturnedCount(q) == q.response.payload.v[PyStr("data")].v[PyStr("favorites_count")]

\* C30: once an add-favorite or remove-favorite request of user u has
\* completed, no later profile request of u returns a favorites_count from
\* before that change, whatever the availability of the store during the
\* requests: with one request after the other, a completed profile request
\* has returned the count of the FavoriteMovie rows as they are.
C30_NoStaleCountAfterChange ==
    \A r \in DOMAIN req :
        (req[r].view = "profile" /\ req[r].pc = "done") =>
            ReturnedCount(req[r]) = PyInt(Cardinality({f \in favorites : f[1] = req[r].user_id}))

(***************************************************************************)
(* The claims about the probe, the expiry on a rewrite and a corrupted     *)
(* entry of the cache service.                                             *)
(***************************************************************************)
\* C31: an operation of the cache service issues a store command only
\* after the probe has passed, and none when the probe fails; when the
\* connection drops after the probe and before the command, a get returns
\* None and a set, an invalidate or a clear returns False: none raises.
C31_ProbeBeforeCommand ==
    (last.op \in GetOps \cup BoolOps) =>
        /\ last.cmds # <<>> => (last.probe /\ last.up)
        /\ ~last.probe => (last.cmds = <<>> /\ ~last.changed)
        /\ last.dropped =>
              /\ last.probe
              /\ last.raised = "none"
              /\ last.op \in GetOps => last.ret = PyNone
              /\ last.op \in BoolOps => last.ret = PyBool(FALSE)

\* The connection dropped between the probe and the SETEX of a set.
C31_Witness ==
    /\ last.op = "set_trending_movies"
    /\ last.probe /\ last.dropped
    /\ last.cmds = <<"setex">>
    /\ last.ret = PyBool(FALSE)
    /\ ~conn

(***************************************************************************)
(* The claim about the delays of the client, under SpecClient.             *)
(***************************************************************************)
RECURSIVE SumSeq(_)
SumSeq(xs) == IF xs = <<>> THEN 0 ELSE Head(xs) + SumSeq(Tail(xs))
ClaimedDelays == <<1, 2, 4>>

\* C32: the delay slept before retry n (n = 0, 1, 2) is RETRY_DELAY * 2^n,
\* that is 1, 2, 4 seconds, after a timeout as after a connection error; a
\* delay follows an attempt exactly when the attempt failed with one of the
\* two and is not the fourth, so none follows the last failed attempt or an
\* attempt that received a response; one fetch sleeps at most 7 seconds.
C32_ExponentialBackoff ==
    /\ Len(cl.sleeps) <= Len(ClaimedDelays)
    /\ \A i \in 1..Len(cl.sleeps) :
          /\ cl.sleeps[i] = ClaimedDelays[i]
          /\ cl.sleeps[i] = RETRY_DELAY * 2 ^ (i - 1)
    /\ \A i \in 1..Len(cl.outcomes) :
          (i <= Len(cl.sleeps)) <=> (cl.outcomes[i].k \in Retryable /\ i <= MAX_RETRIES)
    /\ SumSeq(cl.sleeps) <= 7

\* Three delays, after a timeout and after connection errors, and none
\* after the fourth failure.
C32_Witness ==
    /\ cl.pc = "done"
    /\ cl.outcomes = <<Timeout, ConnectionError, ConnectionError, ConnectionError>>
    /\ cl.sleeps = <<1, 2, 4>>
    /\ SumSeq(cl.sleeps) = 7

(***************************************************************************)
(* The claim about the pagination links, under SpecEndpoints.              *)
(***************************************************************************)
\* Request q was answered with a TMDB page through the paginator.
ServedPage(q) ==
    /\ q.pc = "done" /\ q.view \in {"trending", "search", "recommendations", "popular"}
    /\ q.response.status = 200 /\ IsTmdbData(q.response.payload)

\* C33: in the response to a trending, search, recommendations or popular
\* request that carries a TMDB page, 'next' is None exactly when
\* page >= total_pages and otherwise the URL of the request for page + 1,
\* and 'previous' is None exactly when page <= 1 and otherwise the URL of
\* the request for page - 1.
C33_PaginationLinks ==
    \A r \in DOMAIN req :
        LET q == req[r]
            data == q.response.payload
        IN  ServedPage(q) =>
              LET page == data.v[PyStr("page")].v
                  total_pages == data.v[PyStr("total_pages")].v
              IN  /\ GetNextUrl(PaginatorRequest(q), data) =
                        (IF page >= total_pages THEN PyNone
                         ELSE [Url(q) EXCEPT !.page = PyInt(page + 1)])
                  /\ GetPreviousUrl(PaginatorRequest(q), data) =
                        (IF page <= 1 THEN PyNone
                         ELSE [Url(q) EXCEPT !.page = PyInt(page - 1)])

(***************************************************************************)
(* The system health view of utils/views.py, and the claim about how it    *)
(* aggregates its three checks, under SpecHealth.                          *)
(***************************************************************************)
Check(status, response_time) == [status |-> status, response_time |-> response_time]

\* What the probes of the checks meet: the SELECT 1 of the database, and the
\* GET of the TMDB configuration endpoint.
DbOutcomes == {[raised |-> TRUE, ms |-> 0]} \cup {[raised |-> FALSE, ms |-> t] : t \in {99, 100, 500}}
RedisTimes == {49, 50, 200}
ApiOutcomes ==
    {[k |-> k, status |-> 0, images |-> FALSE, ms |-> 0] :
        k \in {"no_key", "Timeout", "ConnectionError", "Exception"}}
    \cup {[k |-> "response", status |-> 200, images |-> i, ms |-> t] :
            i \in BOOLEAN, t \in {999, 1000, 3000}}
    \cup {[k |-> "response", status |-> st, images |-> FALSE, ms |-> 999] : st \in {401, 429, 500}}

\* SystemMetricsView._check_database_health
CheckDatabaseHealth(o) ==
    IF o.raised THEN Check("unhealthy", 0)
    ELSE IF o.ms < 100 THEN Check("healthy", o.ms)
    ELSE Check("degraded", o.ms)

\* SystemMetricsView._check_redis_health, once cache.set has passed: raised
\* says that cache.get raised, retrieved is what it returned.
CheckRedisHealth(raised, retrieved, ms) ==
    IF raised THEN Check("unhealthy", 0)
    ELSE IF retrieved = PyStr("test_value")
    THEN (IF ms < 50 THEN Check("healthy", ms) ELSE Check("degraded", ms))
    ELSE Check("unhealthy", 0)

\* SystemMetricsView._check_external_api_health
CheckExternalApiHealth(o) ==
    IF o.k = "no_key" THEN Check("degraded", 0)
    ELSE IF o.k = "Timeout" THEN Check("degraded", 5000)
    ELSE IF o.k \in {"ConnectionError", "Exception"} THEN Check("degraded", 0)
    ELSE IF o.status = 200
    THEN (IF o.images
          THEN (IF o.ms < 1000 THEN Check("healthy", o.ms) ELSE Check("degraded", o.ms))
          ELSE Check("unhealthy", o.ms))
    ELSE Check("degraded", o.ms)

\* An overall status that is 'unhealthy' as soon as any check is.
OverallStatusAnyUnhealthy(db_health, redis_health, api_health) ==
    IF \E c \in {db_health, redis_health, api_health} : c.status = "unhealthy" THEN "unhealthy"
    ELSE IF \A c \in {db_health, redis_health, api_health} : c.status = "healthy" THEN "healthy"
    ELSE "degraded"

\* SystemMetricsView.get: the overall status, the body and the HTTP status.
OverallStatus(db_health, redis_health, api_health) ==
    IF db_health.status = "unhealthy" THEN "unhealthy"
    ELSE IF \A c \in {db_health, redis_health, api_health} : c.status = "healthy" THEN "healthy"
    ELSE "degraded"

CountStatus(all_checks, status) ==
    Cardinality({i \in DOMAIN all_checks : all_checks[i].status = status})

HealthResponse(db_health, redis_health, api_health) ==
    LET all_checks == <<db_health, redis_health, api_health>>
        overall_status == OverallStatus(db_health, redis_health, api_health)
        health_data ==
            [status |-> overall_status,
             checks |-> [database |-> db_health, redis |-> redis_health,
                         external_api |-> api_health],
             metrics |-> [total_checks |-> Len(all_checks),
                          healthy_checks |-> CountStatus(all_checks, "healthy"),
                          degraded_checks |-> CountStatus(all_checks, "degraded"),
                          unhealthy_checks |-> CountStatus(all_checks, "unhealthy")]]
    IN  HttpResponse(IF overall_status = "unhealthy" THEN 503 ELSE 200, "", health_data)

\* GET of the health view, up to cache.set(test_key, test_value, 30): the
\* database check, and the write of the test key. A cache.set that raises
\* makes the cache check unhealthy, and the view goes on to the last check.
HealthStart(r, db, api) ==
    /\ req[r].pc \in {"idle", "done"}
    /\ LET db_health == CheckDatabaseHealth(db)
       IN  IF conn
           THEN /\ store' = Setex(store, now, HEALTH_KEY, 30, Dumps(PyStr("test_value")),
                                  PyStr("test_value"))
                /\ req' = [req EXCEPT ![r] =
                            [ReqIdle EXCEPT !.pc = "health_get", !.view = "health",
                                            !.inner = Returned(db_health)]]
           ELSE /\ store' = store
                /\ req' = [req EXCEPT ![r] =
                            [ReqIdle EXCEPT !.pc = "done", !.view = "health",
                                !.inner = Returned(db_health),
                                !.response = HealthResponse(db_health, Check("unhealthy", 0),
                                                 CheckExternalApiHealth(api))]]
    /\ UNCHANGED <<redis_client, conn, now, last, cl, args, favorites>>

\* The rest of the view: cache.get(test_key), the comparison, the
\* cache.delete, the check of the external API and the response.
HealthFinish(r, ms, api) ==
    /\ req[r].pc = "health_get"
    /\ LET db_health == req[r].inner.value
           retrieved == Lookup(store, now, HEALTH_KEY)
           redis_health == CheckRedisHealth(~conn, retrieved, ms)
       IN  /\ store' = IF conn /\ retrieved = PyStr("test_value")
                       THEN Delete(store, {HEALTH_KEY}) ELSE store
           /\ req' = [req EXCEPT ![r].pc = "done",
                                 ![r].response = HealthResponse(db_health, redis_health,
                                                     CheckExternalApiHealth(api))]
    /\ UNCHANGED <<redis_client, conn, now, last, cl, args, favorites>>

\* SpecHealth: one worker serves the health view while the store comes and
\* goes and the clock runs.
NextHealth ==
    \/ \E r \in Workers, db \in DbOutcomes, api \in ApiOutcomes : HealthStart(r, db, api)
    \/ \E r \in Workers, ms \in RedisTimes, api \in ApiOutcomes : HealthFinish(r, ms, api)
    \/ Disconnect
    \/ Reconnect
    \/ Tick

SpecHealth == Init /\ [][NextHealth]_vars

HealthDone(q) == q.pc = "done" /\ q.view = "health"

\* C34: the overall status of a health response is 'unhealthy' exactly when
\* the database check is unhealthy, otherwise 'healthy' exactly when the
\* three checks are healthy, otherwise 'degraded'; the HTTP status is 503
\* exactly when the overall status is 'unhealthy' and 200 otherwise; the
\* healthy, degraded and unhealthy counts sum to total_checks = 3.
C34_HealthAggregation ==
    \A r \in DOMAIN req :
        HealthDone(req[r]) =>
            LET body == req[r].response.payload
                checks == body.checks
                all_healthy == /\ checks.database.status = "healthy"
                               /\ checks.redis.status = "healthy"
                               /\ checks.external_api.status = "healthy"
            IN  /\ (body.status = "unhealthy") <=> (checks.database.status = "unhealthy")
                /\ checks.database.status # "unhealthy" =>
                      ((body.status = "healthy") <=> all_healthy)
                /\ body.status \in {"unhealthy", "healthy", "degraded"}
                /\ (req[r].response.status = 503) <=> (body.status = "unhealthy")
                /\ req[r].response.status \in {200, 503}
                /\ body.metrics.total_checks = 3
                /\ body.metrics.healthy_checks + body.metrics.degraded_checks
                     + body.metrics.unhealthy_checks = body.metrics.total_checks

\* A response 200 'degraded' whose cache and external-API checks are both
\* unhealthy while the database check is healthy.
C34_Witness ==
    \E r \in DOMAIN req :
        /\ HealthDone(req[r])
        /\ req[r].response.status = 200
        /\ req[r].response.payload.status = "degraded"
        /\ req[r].response.payload.checks.database.status = "healthy"
        /\ req[r].response.payload.checks.redis.status = "unhealthy"
        /\ req[r].response.payload.checks.external_api.status = "unhealthy"
        /\ req[r].response.payload.metrics.unhealthy_checks = 2

(***************************************************************************)
(* The claim about duplicate favorites, under SpecFavorites.               *)
(***************************************************************************)
\* Request q is an add-favorite that was answered.
AddDone(q) == q.view = "add_favorite" /\ q.pc = "done"

\* C35: there is at most one favorite record per (user, tmdb_id); an
\* add-favorite request creates a record or, the movie being in the user's
\* favorites already, is answered with 400 without a call of
\* invalidate_user_cache: a 201 is the answer of a request that created a
\* record.
C35_DuplicateAddRejected ==
    /\ \A u \in FavoritesUsers, m \in FavoritesMovies :
            Cardinality({row \in favorites : row = <<u, m>>}) <= 1
    /\ \A r \in DOMAIN req :
            AddDone(req[r]) =>
                /\ req[r].response.status = 201 => req[r].inner = Returned(PyBool(TRUE))
                /\ req[r].inner # Returned(PyBool(TRUE)) =>
                      (req[r].response.status = 400 /\ req[r].trace = <<>>)

(***************************************************************************)
(* The claim about a set on a key that is there, under SpecReplace.        *)
(***************************************************************************)
\* SpecReplace: callers write a page under one trending key and one
\* recommendations key, later callers write another page over the entry that
\* is there, and callers read the keys as the clock runs.
ReplaceFirst == TmdbPage(1, 2, <<123>>)
ReplaceAgain == TmdbPage(1, 3, <<123, 456>>)
ReplaceInstants == {0, 1800, 3599, 3600, 5399, 5400}

ReplaceSetTrending(data) ==
    /\ SetTrendingMovies(data, "day", 1, FALSE)
    /\ args' = ArgsTrending("day", 1)
    /\ UNCHANGED <<cl, req, favorites>>
ReplaceSetRecommendations(data) ==
    /\ SetMovieRecommendations(1, data, 1, FALSE)
    /\ args' = ArgsRecommendations(1, 1)
    /\ UNCHANGED <<cl, req, favorites>>
ReplaceGetTrending ==
    /\ GetTrendingMovies("day", 1, FALSE)
    /\ args' = ArgsTrending("day", 1)
    /\ UNCHANGED <<cl, req, favorites>>
ReplaceGetRecommendations ==
    /\ GetMovieRecommendations(1, 1, FALSE)
    /\ args' = ArgsRecommendations(1, 1)
    /\ UNCHANGED <<cl, req, favorites>>

\* The entry under key was written before now, with the first page.
WrittenEarlier(key) ==
    key \in DOMAIN store /\ store[key].at < now /\ store[key].data = ReplaceFirst

NextReplace ==
    \/ ReplaceSetTrending(ReplaceFirst)
    \/ ReplaceSetRecommendations(ReplaceFirst)
    \/ WrittenEarlier(TrendingKey("day", 1)) /\ ReplaceSetTrending(ReplaceAgain)
    \/ WrittenEarlier(RecommendationsKey(1, 1))
          /\ ReplaceSetRecommendations(ReplaceAgain)
    \/ ReplaceGetTrending
    \/ ReplaceGetRecommendations
    \/ \E t \in ReplaceInstants : Advance(t)

SpecReplace == Init /\ [][NextReplace]_vars

\* C36: a successful set leaves under its key the value it was given, with
\* the expiry of the category counted from that set, whatever entry was
\* there; and the get that follows a successful set on its key returns the
\* value of that set until the category TTL has passed since it, and absent
\* from then on.
C36_SetReplaces ==
    [][/\ (now' = now /\ last'.op \in SetOps /\ last'.ret = PyBool(TRUE)) =>
            /\ last'.key \in DOMAIN store'
            /\ store'[last'.key].data = last'.data
            /\ store'[last'.key].val = SerializeData(last'.data).text
            /\ store'[last'.key].exp = now + PolicyTtl(last'.op)
       /\ (last'.op \in GetOps /\ last.op \in SetOps /\ last.ret = PyBool(TRUE)
              /\ last'.key = last.key /\ last'.up /\ ~last'.dropped) =>
            last'.ret = IF now < store[last.key].at + PolicyTtl(last.op)
                        THEN last.data ELSE PyNone]_vars

\* At 5399 a get returned the page written at 1800 over the page written
\* before, whose own hour ended at 3600 at the latest.
C36_Witness ==
    /\ last.op = "get_trending_movies"
    /\ last.ret = ReplaceAgain
    /\ now = 5399
    /\ store[last.key].at = 1800
    /\ store[last.key].exp = 5400

(***************************************************************************)
(* The claim about a stored value that cannot be deserialized, under       *)
(* SpecCorrupt.                                                            *)
(***************************************************************************)
\* Something other than the service overwrites the value of a live entry
\* with text, leaving its expiry.
CorruptTexts == {NotJson, NotUtf8}
CorruptEntry(key, text) ==
    /\ Live(store, now, key)
    /\ store' = [store EXCEPT ![key].val = text, ![key].data = PyNone]
    /\ UNCHANGED <<redis_client, conn, now, last, cl, req, args, favorites>>

\* SpecCorrupt: one worker serves trending and recommendations requests on
\* a store that stays connected, while stored values get corrupted.
CorruptKeys == {TrendingKey("day", 1), RecommendationsKey(1, 1)}
NextCorrupt ==
    \/ \E r \in Workers : ReqStart(r, "trending", PyStr("day"), PyInt(1), PyNone)
    \/ \E r \in Workers : ReqStart(r, "recommendations", PyNone, PyInt(1), PyInt(1))
    \/ \E r \in Workers : ReqCacheGet(r, FALSE)
    \/ \E r \in Workers, o \in ReqOutcomes : ReqFetch(r, o)
    \/ \E r \in Workers : ReqCacheSet(r, FALSE)
    \/ \E key \in CorruptKeys, text \in CorruptTexts : CorruptEntry(key, text)
    \/ Tick

SpecCorrupt == Init /\ [][NextCorrupt]_vars

\* The entry that request q reads is live and its value cannot be
\* deserialized.
ReadsCorrupted(q) ==
    /\ Live(store, now, ReqKey(q))
    /\ store[ReqKey(q)].val \in CorruptTexts

\* C37: a get of the handler on a connected store that meets a live entry
\* whose value cannot be deserialized returns absent without raising, and
\* the handler goes on to fetch from the origin; the set that follows the
\* fetch leaves the fetched payload under the key.
C37_CorruptedIsMiss ==
    [][\A r \in Workers :
          /\ (req[r].pc = "get" /\ req'[r].pc # "get" /\ conn /\ redis_client # "none"
                /\ ReadsCorrupted(req[r])) =>
                /\ last'.raised = "none"
                /\ last'.ret = PyNone
                /\ req'[r].pc = "fetch"
          /\ (req[r].pc = "set" /\ req'[r].pc = "done" /\ last'.ret = PyBool(TRUE)) =>
                /\ store'[last'.key].val = SerializeData(req[r].c.value).text
                /\ store'[last'.key].val \notin CorruptTexts]_vars

====
